---- MODULE Spec2Model ----
(***************************************************************************)
(* Data access and cache consistency layer of XchangeBot:                  *)
(*   sheets.py        CacheManager, cache_result, GoogleSheetsClient,      *)
(*                    migrate_transaction_data                             *)
(*   database.py      DatabaseManager                                      *)
(*   data_manager.py  DataManager (the facade)                             *)
(*                                                                         *)
(* Conventions.                                                            *)
(*  - A Python object is a record; an operation of an object is an         *)
(*    operator that takes the object and returns the object after the call *)
(*    together with the returned value ([st |-> ..., ret |-> ...]).        *)
(*  - A Python value that may be None is wrapped: PyNone, Py(v).           *)
(*  - Chat identifiers are Python ints outside the 32-bit range; they are  *)
(*    carried by their decimal text, which is what str(chat_id) yields.    *)
(*  - Money is fixed point with two decimals (an integer number of         *)
(*    hundredths) wherever the code rounds with round(x, 2).               *)
(*  - time.time() is the variable now, the current date is today.          *)
(*  - The Cyrillic literals of the source are transliterated:              *)
(*    "Ne vyplacheno", "Vyplacheno", "Ne oplacheno", "Otkryt", "Zakryt",   *)
(*    "Test123", "E, Ilya Kuznetsov i XchangeBot".                         *)
(***************************************************************************)
EXTENDS Integers, Sequences, FiniteSets, TLC

(***************************************************************************)
(* Bounds of the model.                                                    *)
(***************************************************************************)
MaxTx == 2
MaxGets == 5
MaxTime == 10
MaxDay == 2
MaxStatus == 2

(***************************************************************************)
(* Program constants.                                                      *)
(***************************************************************************)
CACHE_DURATION == 10
FallbackRate == 90
\* the seconds time.time() advances between two observations of the clock
TickStep == 5

(***************************************************************************)
(* Python values.                                                          *)
(***************************************************************************)
PyNone == [none |-> TRUE]
Py(v) == [val |-> v]
PyList(s) == [list |-> s]
PyRaise == [raise |-> TRUE]
IsNone(x) == "none" \in DOMAIN x
IsRaise(x) == "raise" \in DOMAIN x
IsList(x) == "list" \in DOMAIN x
EmptyDict == [x \in {} |-> 0]

\* d.get(k, default)
Get(d, k, default) == IF k \in DOMAIN d THEN d[k] ELSE default

StrBool(b) == IF b THEN "True" ELSE "False"

\* pattern in k  (substring test of Python strings)
Contains(p, k) ==
    \E i \in 1..(Len(k) - Len(p) + 1) : SubSeq(k, i, i + Len(p) - 1) = p

\* s.startswith(p)
StartsWith(s, p) == Len(p) <= Len(s) /\ SubSeq(s, 1, Len(p)) = p

UpperChars == <<"A", "B", "C", "D", "E", "F", "G", "H", "I", "J", "K", "L", "M",
                "N", "O", "P", "Q", "R", "S", "T", "U", "V", "W", "X", "Y", "Z">>
LowerChars == <<"a", "b", "c", "d", "e", "f", "g", "h", "i", "j", "k", "l", "m",
                "n", "o", "p", "q", "r", "s", "t", "u", "v", "w", "x", "y", "z">>
LowerChar(c) ==
    IF \E i \in 1..26 : UpperChars[i] = c
    THEN LowerChars[CHOOSE i \in 1..26 : UpperChars[i] = c]
    ELSE c

\* s.lower()
RECURSIVE Lower(_)
Lower(s) ==
    IF Len(s) = 0 THEN ""
    ELSE Lower(SubSeq(s, 1, Len(s) - 1)) \o LowerChar(SubSeq(s, Len(s), Len(s)))

Digits == <<"0", "1", "2", "3", "4", "5", "6", "7", "8", "9">>
IsDigitChar(c) == \E i \in 1..10 : Digits[i] = c
DigitVal(c) == (CHOOSE i \in 1..10 : Digits[i] = c) - 1

\* id_.isdigit()
IsDigit(s) == Len(s) > 0 /\ \A i \in 1..Len(s) : IsDigitChar(SubSeq(s, i, i))

\* int(s) / float(s) for a string of decimal digits
RECURSIVE ParseDigits(_)
ParseDigits(s) ==
    IF Len(s) = 0 THEN 0
    ELSE 10 * ParseDigits(SubSeq(s, 1, Len(s) - 1)) + DigitVal(SubSeq(s, Len(s), Len(s)))

\* ord(c) for the characters of dates and times
OrdChars == <<".", "/", "0", "1", "2", "3", "4", "5", "6", "7", "8", "9", ":">>
Ord(c) == CHOOSE i \in 1..13 : OrdChars[i] = c

\* a < b for Python strings (lexicographic)
RECURSIVE StrLess(_, _)
StrLess(a, b) ==
    IF Len(b) = 0 THEN FALSE
    ELSE IF Len(a) = 0 THEN TRUE
    ELSE LET ca == SubSeq(a, 1, 1)
             cb == SubSeq(b, 1, 1)
         IN IF ca = cb THEN StrLess(SubSeq(a, 2, Len(a)), SubSeq(b, 2, Len(b)))
            ELSE Ord(ca) < Ord(cb)

\* Sum of a sequence of integers
RECURSIVE SumSeq(_)
SumSeq(s) == IF Len(s) = 0 THEN 0 ELSE s[1] + SumSeq(SubSeq(s, 2, Len(s)))

\* Maximum of a non-empty set of integers
MaxOf(S) == CHOOSE m \in S : \A x \in S : x <= m

\* round(num / den, 2) in hundredths, ties to even (den > 0, num >= 0)
Round2(num, den) ==
    LET q == (100 * num) \div den
        r == (100 * num) % den
    IN IF 2 * r > den THEN q + 1
       ELSE IF 2 * r < den THEN q
       ELSE IF q % 2 = 0 THEN q ELSE q + 1

(***************************************************************************)
(* Clock: time.time() and datetime.now(MSK_TIMEZONE).                      *)
(***************************************************************************)
VARIABLES now, today

\* strftime("%d.%m.%Y") of the day with index d
DateStr(d) == IF d = 1 THEN "30.11.2026"
              ELSE IF d = 2 THEN "01.12.2026"
              ELSE "02.12.2026"

\* strftime("%H:%M:%S") of the clock value t
TimeStr(t) == IF t < 10 THEN "12:00:0" \o ToString(t) ELSE "12:00:" \o ToString(t)

current_date == DateStr(today)
current_datetime == current_date \o " " \o TimeStr(now)

(***************************************************************************)
(* sheets.py: CacheManager                                                 *)
(***************************************************************************)
CacheManager_init ==
    [cache |-> EmptyDict, hits |-> 0, misses |-> 0,
     last_access_time |-> EmptyDict, invalidations |-> 0]

\* dict without key k
DictDel(f, k) == [x \in (DOMAIN f) \ {k} |-> f[x]]
\* dict with f[k] = v
DictSet(f, k, v) == [x \in (DOMAIN f) \cup {k} |-> IF x = k THEN v ELSE f[x]]

\* a variant whose validity test admits an age of exactly CACHE_DURATION
CacheManager_get_inclusive(cm, key) ==
    LET cm1 == [cm EXCEPT !.last_access_time = DictSet(@, key, now)]
    IN IF key \in DOMAIN cm1.cache
       THEN IF now - cm1.cache[key].timestamp <= CACHE_DURATION
            THEN [cm |-> [cm1 EXCEPT !.hits = @ + 1],
                  value |-> cm1.cache[key].value, exists |-> TRUE]
            ELSE [cm |-> [cm1 EXCEPT !.cache = DictDel(@, key),
                                     !.invalidations = @ + 1,
                                     !.misses = @ + 1],
                  value |-> PyNone, exists |-> FALSE]
       ELSE [cm |-> [cm1 EXCEPT !.misses = @ + 1],
             value |-> PyNone, exists |-> FALSE]

CacheManager_get(cm, key) ==
    LET cm1 == [cm EXCEPT !.last_access_time = DictSet(@, key, now)]
    IN IF key \in DOMAIN cm1.cache
       THEN IF now - cm1.cache[key].timestamp < CACHE_DURATION
            THEN [cm |-> [cm1 EXCEPT !.hits = @ + 1],
                  value |-> cm1.cache[key].value, exists |-> TRUE]
            ELSE [cm |-> [cm1 EXCEPT !.cache = DictDel(@, key),
                                     !.invalidations = @ + 1,
                                     !.misses = @ + 1],
                  value |-> PyNone, exists |-> FALSE]
       ELSE [cm |-> [cm1 EXCEPT !.misses = @ + 1],
             value |-> PyNone, exists |-> FALSE]

\* a variant that stores nothing
CacheManager_set_nothing(cm, key, value) == cm

CacheManager_set(cm, key, value) ==
    [cm EXCEPT !.cache = DictSet(@, key, [timestamp |-> now, value |-> value])]

\* invalidate(key) with key given
CacheManager_invalidate(cm, key) ==
    IF key \in DOMAIN cm.cache
    THEN [cm EXCEPT !.cache = DictDel(@, key), !.invalidations = @ + 1]
    ELSE cm

\* a variant of invalidate(None) that counts one invalidation per call
CacheManager_invalidate_all_once(cm) ==
    [cm EXCEPT !.cache = EmptyDict, !.invalidations = @ + 1]

\* invalidate(None)
CacheManager_invalidate_all(cm) ==
    [cm EXCEPT !.cache = EmptyDict,
               !.invalidations = @ + Cardinality(DOMAIN cm.cache)]

\* a variant that matches the pattern at the start of the key only
CacheManager_invalidate_pattern_prefix(cm, pattern) ==
    LET keys_to_delete == {k \in DOMAIN cm.cache : StartsWith(k, pattern)}
    IN [cm EXCEPT !.cache = [k \in (DOMAIN cm.cache) \ keys_to_delete |-> cm.cache[k]],
                  !.invalidations = @ + Cardinality(keys_to_delete)]

CacheManager_invalidate_pattern(cm, pattern) ==
    LET keys_to_delete == {k \in DOMAIN cm.cache : Contains(pattern, k)}
    IN [cm EXCEPT !.cache = [k \in (DOMAIN cm.cache) \ keys_to_delete |-> cm.cache[k]],
                  !.invalidations = @ + Cardinality(keys_to_delete)]

TransactionPatterns ==
    <<"get_transaction", "get_all_transactions", "get_daily_transactions",
      "get_unpaid_transactions", "get_daily_statistics">>

RECURSIVE InvalidatePatterns(_, _)
InvalidatePatterns(cm, patterns) ==
    IF patterns = <<>> THEN cm
    ELSE InvalidatePatterns(CacheManager_invalidate_pattern(cm, Head(patterns)),
                            Tail(patterns))

\* invalidate_transaction_cache(transaction_id); tid is PyNone or Py(id)
CacheManager_invalidate_transaction_cache(cm, tid) ==
    IF ~IsNone(tid)
    THEN CacheManager_invalidate(cm, "get_transaction:" \o ToString(tid.val))
    ELSE InvalidatePatterns(cm, TransactionPatterns)


(***************************************************************************)
(* config.py                                                               *)
(***************************************************************************)
DEBUG == FALSE

(***************************************************************************)
(* sheets.py: cache_result                                                 *)
(*   st          the GoogleSheetsClient (args[0])                          *)
(*   key_prefix  key_pattern up to its placeholder, has_slot: it has {0}   *)
(*   full_args   str() of the positional arguments, then "k=v" of the      *)
(*               keyword arguments, as the call site passes them           *)
(*   Func        the decorated function                                    *)
(***************************************************************************)
CacheKey(key_prefix, has_slot, function_name, full_args) ==
    IF full_args # <<>>
    THEN IF has_slot THEN key_prefix \o full_args[1] ELSE key_prefix
    ELSE function_name

cache_result(st, key_prefix, has_slot, function_name, full_args, Func(_)) ==
    IF st.dummy_mode THEN Func(st)
    ELSE IF DEBUG THEN Func(st)
    ELSE LET key == CacheKey(key_prefix, has_slot, function_name, full_args)
             g == CacheManager_get(st.cache_manager, key)
             st1 == [st EXCEPT !.cache_manager = g.cm]
         IN IF g.exists THEN [st |-> st1, ret |-> g.value]
            ELSE LET r == Func(st1)
                 IN IF ~IsNone(r.ret)
                    THEN [st |-> [r.st EXCEPT !.cache_manager =
                                      CacheManager_set(@, key, r.ret)],
                          ret |-> r.ret]
                    ELSE r

(***************************************************************************)
(* sheets.py: GoogleSheetsClient                                           *)
(*   sheet            rows of the Transactions worksheet below the header  *)
(*   settings_sheet   rows of DaySettings, status_sheet rows of DayStatus  *)
(*   daily_transactions, day_settings, day_open   the dummy-mode storage   *)
(*   cache            self.cache, cache_manager   self.cache_manager       *)
(*   io               the call in progress has read the spreadsheet        *)
(***************************************************************************)
NOT_PAID == "Ne vyplacheno"
PAID == "Vyplacheno"

\* the sample transaction of _initialize_dummy_mode; its rate 92.5 is carried
\* as 92, no operation modelled here computes with it to more than a unit
SampleTransaction ==
    [id |-> 1, datetime |-> DateStr(1) \o " 12:00", amount |-> 10000,
     method |-> "USDT TRC20", commission |-> 5, rate |-> 92,
     status |-> "Ne oplacheno", group |-> "Test Group", hash |-> ""]

\* self after __init__ on the path that reaches the worksheet
GoogleSheetsClient_init(rows) ==
    [dummy_mode |-> FALSE, sheet |-> rows, settings_sheet |-> <<>>,
     status_sheet |-> <<>>, daily_transactions |-> <<>>,
     day_settings |-> PyNone, day_open |-> TRUE,
     cache |-> EmptyDict, cache_manager |-> CacheManager_init, io |-> FALSE]

\* self after __init__ on a path that calls _initialize_dummy_mode
initialize_dummy_mode ==
    [dummy_mode |-> TRUE, sheet |-> <<>>, settings_sheet |-> <<>>,
     status_sheet |-> <<>>, daily_transactions |-> <<SampleTransaction>>,
     day_settings |-> Py([rate |-> 92, commission |-> 5]), day_open |-> TRUE,
     cache |-> EmptyDict, cache_manager |-> CacheManager_init, io |-> FALSE]

\* the dicts held by cached lists are shared objects: obj names the object
UsedOids(cm) ==
    UNION {{cm.cache[k].value.list[i].obj[1] :
                i \in 1..Len(cm.cache[k].value.list)} :
           k \in {x \in DOMAIN cm.cache : IsList(cm.cache[x].value)}}
FreshOid(cm) ==
    CHOOSE n \in 1..(Cardinality(DOMAIN cm.cache) + 1) :
        n \notin UsedOids(cm) /\ \A m \in 1..(n - 1) : m \in UsedOids(cm)

\* the dictionary get_all_transactions builds from a row
RowDict(row, oid, idx) ==
    [id |-> IF IsDigit(row.id) THEN ParseDigits(row.id) ELSE 0,
     datetime |-> row.datetime, amount |-> row.amount, method |-> row.method,
     commission |-> row.commission, rate |-> row.rate, status |-> row.status,
     group |-> row.group, hash |-> row.hash, chat_id |-> row.chat_id,
     obj |-> <<oid, idx>>]

\* a stored dummy-mode dictionary as the object a caller receives
MemDict(t, idx) == DictSet(t, "obj", <<0, idx>>)

\* sheet.col_values(1) scanned for str(transaction_id): the row index or 0
FindRow(sheet, transaction_id) ==
    LET hits == {i \in 1..Len(sheet) : sheet[i].id = ToString(transaction_id)}
    IN IF hits = {} THEN 0 ELSE CHOOSE i \in hits : \A j \in hits : i <= j

\* daily_transactions scanned for transaction["id"] == transaction_id
FindMem(txs, transaction_id) ==
    LET hits == {i \in 1..Len(txs) : txs[i].id = transaction_id}
    IN IF hits = {} THEN 0 ELSE CHOOSE i \in hits : \A j \in hits : i <= j

get_transaction_func(st, transaction_id) ==
    IF st.dummy_mode
    THEN LET i == FindMem(st.daily_transactions, transaction_id)
         IN [st |-> st,
             ret |-> IF i = 0 THEN PyNone ELSE Py(MemDict(st.daily_transactions[i], i))]
    ELSE LET i == FindRow(st.sheet, transaction_id)
             st1 == [st EXCEPT !.io = TRUE]
         IN [st |-> st1,
             ret |-> IF i = 0 THEN PyNone ELSE Py(RowDict(st.sheet[i], 0, 0))]

Sheets_get_transaction(st, transaction_id) ==
    cache_result(st, "get_transaction:", TRUE, "get_transaction",
                 <<ToString(transaction_id)>>,
                 LAMBDA s : get_transaction_func(s, transaction_id))

\* the rows of the sheet that get_all_transactions keeps, as dictionaries
RECURSIVE RowsToDicts(_, _, _, _)
RowsToDicts(sheet, n, date, oid) ==
    IF n = 0 THEN <<>>
    ELSE LET rest == RowsToDicts(sheet, n - 1, date, oid)
         IN IF ~IsNone(date) /\ date.val # "" /\ ~StartsWith(sheet[n].datetime, date.val)
            THEN rest
            ELSE Append(rest, RowDict(sheet[n], oid, n))

RECURSIVE MemToDicts(_, _, _)
MemToDicts(txs, n, date) ==
    IF n = 0 THEN <<>>
    ELSE LET rest == MemToDicts(txs, n - 1, date)
         IN IF ~IsNone(date) /\ date.val # "" /\ ~StartsWith(txs[n].datetime, date.val)
            THEN rest
            ELSE Append(rest, MemDict(txs[n], n))

\* date: PyNone or Py(text)
get_all_transactions_func(st, date, force_refresh) ==
    LET st1 == IF force_refresh
               THEN [st EXCEPT !.cache_manager =
                        CacheManager_invalidate_pattern(
                            CacheManager_invalidate_pattern(@, "get_all_transactions"),
                            "get_transaction")]
               ELSE st
    IN IF st1.dummy_mode
       THEN [st |-> st1,
             ret |-> PyList(MemToDicts(st1.daily_transactions,
                                       Len(st1.daily_transactions), date))]
       ELSE [st |-> [st1 EXCEPT !.io = TRUE],
             ret |-> PyList(RowsToDicts(st1.sheet, Len(st1.sheet), date,
                                        FreshOid(st1.cache_manager)))]

\* every call site passes date and force_refresh by keyword
Sheets_get_all_transactions(st, date, has_force, force_refresh) ==
    cache_result(st, "get_all_transactions:", TRUE, "get_all_transactions",
                 (IF IsNone(date) THEN <<>> ELSE <<"date=" \o date.val>>) \o
                 (IF has_force THEN <<"force_refresh=" \o StrBool(force_refresh)>>
                  ELSE <<>>),
                 LAMBDA s : get_all_transactions_func(s, date, has_force /\ force_refresh))

get_daily_transactions_func(st, force_refresh) ==
    Sheets_get_all_transactions(st, Py(current_date), TRUE, force_refresh)

Sheets_get_daily_transactions(st, force_refresh) ==
    cache_result(st, "get_daily_transactions", FALSE, "get_daily_transactions",
                 <<"force_refresh=" \o StrBool(force_refresh)>>,
                 LAMBDA s : get_daily_transactions_func(s, force_refresh))

\* 'ne' in status or status == '', status being str(...).lower()
IsUnpaidStatus(s) == Contains("ne", Lower(s)) \/ Lower(s) = ""

get_unpaid_transactions_func(st, force_refresh) ==
    LET r == Sheets_get_all_transactions(st, PyNone, TRUE, force_refresh)
    IN [st |-> r.st,
        ret |-> PyList(SelectSeq(r.ret.list,
                                 LAMBDA tx : IsUnpaidStatus(Get(tx, "status", ""))))]

Sheets_get_unpaid_transactions(st, force_refresh) ==
    cache_result(st, "get_unpaid_transactions", FALSE, "get_unpaid_transactions",
                 <<"force_refresh=" \o StrBool(force_refresh)>>,
                 LAMBDA s : get_unpaid_transactions_func(s, force_refresh))

\* the text a cell holds after a Python number or string was written to it
CellText(key, v) ==
    IF key \in {"id", "amount", "commission", "rate"} THEN ToString(v) ELSE v

\* len(sheet.row_values(i)): trailing empty cells are not returned
RowLen(row) ==
    IF row.chat_id # "" THEN 10
    ELSE IF row.hash # "" THEN 9
    ELSE IF row.group # "" THEN 8
    ELSE 7

RequiredKeys == {"amount", "method", "commission", "rate"}

\* data: the transaction details, a function from keys to values
Sheets_add_transaction(st, data) ==
    IF st.dummy_mode
    THEN IF ~(RequiredKeys \subseteq DOMAIN data)
         THEN [st |-> st, ret |-> PyRaise]
         ELSE
         LET txs == st.daily_transactions
             new_id == IF txs # <<>>
                       THEN MaxOf({Get(txs[i], "id", 0) : i \in 1..Len(txs)}) + 1
                       ELSE 1
             transaction ==
                 [id |-> new_id, datetime |-> current_datetime,
                  amount |-> data["amount"], method |-> data["method"],
                  commission |-> data["commission"], rate |-> data["rate"],
                  status |-> NOT_PAID,
                  group |-> Get(data, "group", "Development Group"),
                  hash |-> "", chat_id |-> Get(data, "chat_id", "")]
         IN [st |-> [st EXCEPT !.daily_transactions = Append(@, transaction),
                               !.cache_manager =
                                   CacheManager_invalidate_transaction_cache(@, PyNone)],
             ret |-> Py(new_id)]
    ELSE LET all_ids == {i \in 1..Len(st.sheet) : st.sheet[i].id # ""}
             digit_ids == {ParseDigits(st.sheet[i].id) :
                              i \in {j \in all_ids : IsDigit(st.sheet[j].id)}}
             st1 == [st EXCEPT !.io = TRUE]
         IN IF all_ids # {} /\ digit_ids = {}
            THEN [st |-> st1, ret |-> PyRaise]
            ELSE IF ~(RequiredKeys \subseteq DOMAIN data)
            THEN [st |-> st1, ret |-> PyRaise]
            ELSE
            LET new_id == IF all_ids # {} THEN MaxOf(digit_ids) + 1 ELSE 1
                row == [id |-> CellText("id", new_id),
                        datetime |-> current_datetime,
                        amount |-> CellText("amount", data["amount"]),
                        method |-> data["method"],
                        commission |-> CellText("commission", data["commission"]),
                        rate |-> CellText("rate", data["rate"]),
                        status |-> NOT_PAID,
                        group |-> Get(data, "group", ""),
                        hash |-> "",
                        chat_id |-> Get(data, "chat_id", "")]
            IN [st |-> [st1 EXCEPT !.sheet = Append(@, row),
                                   !.cache_manager =
                                       CacheManager_invalidate_transaction_cache(@, PyNone)],
                ret |-> Py(new_id)]

\* for key, value in data.items(): if key in transaction: transaction[key] = value
MemUpdate(transaction, data) ==
    [k \in DOMAIN transaction |->
        IF k \in DOMAIN data THEN data[k] ELSE transaction[k]]

\* a variant that writes an empty cell for a key the data lacks
CellUpdate_no_default(row, data, key) ==
    IF key \in DOMAIN data THEN CellText(key, data[key]) ELSE ""

\* data.get(key, row_data[...]) written back to the cell
CellUpdate(row, data, key) ==
    IF key \in DOMAIN data THEN CellText(key, data[key]) ELSE row[key]

\* a variant without the branch for dummy mode
Sheets_update_transaction_always_live(st, transaction_id, data) ==
    LET i == FindRow(st.sheet, transaction_id)
        st1 == [st EXCEPT !.io = TRUE]
    IN IF i = 0 THEN [st |-> st1, ret |-> FALSE]
       ELSE IF RowLen(st.sheet[i]) < 8 THEN [st |-> st1, ret |-> FALSE]
       ELSE
       LET row_data == st.sheet[i]
           updated_row ==
               [id |-> row_data.id, datetime |-> row_data.datetime,
                amount |-> CellUpdate(row_data, data, "amount"),
                method |-> CellUpdate(row_data, data, "method"),
                commission |-> CellUpdate(row_data, data, "commission"),
                rate |-> CellUpdate(row_data, data, "rate"),
                status |-> CellUpdate(row_data, data, "status"),
                group |-> row_data.group,
                hash |-> CellUpdate(row_data, data, "hash"),
                chat_id |-> CellUpdate(row_data, data, "chat_id")]
       IN [st |-> [st1 EXCEPT !.sheet[i] = updated_row,
                              !.cache_manager =
                                  CacheManager_invalidate_transaction_cache(
                                      @, Py(transaction_id))],
           ret |-> TRUE]

Sheets_update_transaction(st, transaction_id, data) ==
    IF st.dummy_mode
    THEN LET i == FindMem(st.daily_transactions, transaction_id)
         IN IF i = 0 THEN [st |-> st, ret |-> FALSE]
            ELSE [st |-> [st EXCEPT !.daily_transactions[i] = MemUpdate(@, data)],
                  ret |-> TRUE]
    ELSE LET i == FindRow(st.sheet, transaction_id)
             st1 == [st EXCEPT !.io = TRUE]
         IN IF i = 0 THEN [st |-> st1, ret |-> FALSE]
            ELSE IF RowLen(st.sheet[i]) < 8 THEN [st |-> st1, ret |-> FALSE]
            ELSE
            LET row_data == st.sheet[i]
                updated_row ==
                    [id |-> row_data.id, datetime |-> row_data.datetime,
                     amount |-> CellUpdate(row_data, data, "amount"),
                     method |-> CellUpdate(row_data, data, "method"),
                     commission |-> CellUpdate(row_data, data, "commission"),
                     rate |-> CellUpdate(row_data, data, "rate"),
                     status |-> CellUpdate(row_data, data, "status"),
                     group |-> row_data.group,
                     hash |-> CellUpdate(row_data, data, "hash"),
                     chat_id |-> CellUpdate(row_data, data, "chat_id")]
            IN [st |-> [st1 EXCEPT !.sheet[i] = updated_row,
                                   !.cache_manager =
                                       CacheManager_invalidate_transaction_cache(
                                           @, Py(transaction_id))],
                ret |-> TRUE]

\* a variant that writes the status without the hash
Sheets_mark_transaction_paid_status_only(st, transaction_id, transaction_hash) ==
    LET g == Sheets_get_transaction(st, transaction_id)
    IN IF IsNone(g.ret) THEN [st |-> g.st, ret |-> FALSE]
       ELSE Sheets_update_transaction(g.st, transaction_id,
                                      [k \in {"status"} |-> PAID])

Sheets_mark_transaction_paid(st, transaction_id, transaction_hash) ==
    LET g == Sheets_get_transaction(st, transaction_id)
    IN IF IsNone(g.ret) THEN [st |-> g.st, ret |-> FALSE]
       ELSE LET u == Sheets_update_transaction(
                         g.st, transaction_id,
                         [k \in {"status", "hash"} |->
                             IF k = "status" THEN PAID ELSE transaction_hash])
            IN IF u.ret
               THEN [st |-> [u.st EXCEPT !.cache_manager =
                                 CacheManager_invalidate_pattern(@, "get_daily_statistics")],
                     ret |-> TRUE]
               ELSE u

(***************************************************************************)
(* Day settings and day status.  chat_id is the text of the chat           *)
(* identifier: the facade always passes one.                               *)
(***************************************************************************)
OPEN == "Otkryt"
CLOSED == "Zakryt"

\* the index of the last element of the list after rows.sort(key=Key)
LatestBy(rows, idxs, Key(_)) ==
    CHOOSE i \in idxs :
        \A j \in idxs : \/ StrLess(Key(rows[j]), Key(rows[i]))
                        \/ (Key(rows[j]) = Key(rows[i]) /\ j <= i)

Sheets_save_day_settings(st, rate, commission_percent, chat_id) ==
    IF st.dummy_mode
    THEN [st |-> [st EXCEPT !.day_settings =
                      Py([date |-> current_date, rate |-> rate,
                          commission_percent |-> commission_percent]),
                            !.cache_manager =
                      CacheManager_invalidate_pattern(
                          CacheManager_invalidate_pattern(@, "get_day_settings"),
                          "get_current_rate")],
          ret |-> TRUE]
    ELSE LET all_data == st.settings_sheet
             found == {i \in 1..Len(all_data) : all_data[i].chat_id = chat_id}
             new_row == [date |-> current_date, rate |-> ToString(rate),
                         commission |-> ToString(commission_percent),
                         chat_id |-> chat_id]
             sheet1 == IF found # {}
                       THEN [all_data EXCEPT
                                ![CHOOSE i \in found : \A j \in found : i <= j] = new_row]
                       ELSE Append(all_data, new_row)
         IN [st |-> [st EXCEPT !.io = TRUE,
                               !.settings_sheet = sheet1,
                               !.cache_manager =
                                   CacheManager_invalidate(
                                       CacheManager_invalidate(@, "get_day_settings:" \o chat_id),
                                       "get_current_rate:" \o chat_id)],
             ret |-> TRUE]

\* float(cell) if cell else 0; a cell that does not parse raises ValueError
CellNumber(cell) == IF cell = "" THEN 0 ELSE ParseDigits(cell)
CellParses(cell) == cell = "" \/ IsDigit(cell)

get_day_settings_func(st, chat_id) ==
    IF st.dummy_mode THEN [st |-> st, ret |-> st.day_settings]
    ELSE LET all_data == st.settings_sheet
             filtered == {i \in 1..Len(all_data) : all_data[i].chat_id = chat_id}
             st1 == [st EXCEPT !.io = TRUE]
         IN IF filtered = {} THEN [st |-> st1, ret |-> PyNone]
            ELSE LET latest == all_data[LatestBy(all_data, filtered, LAMBDA r : r.date)]
                     ok == CellParses(latest.rate) /\ CellParses(latest.commission)
                 IN [st |-> st1,
                     ret |-> Py([date |-> latest.date,
                                 rate |-> IF ok THEN CellNumber(latest.rate) ELSE 0,
                                 commission_percent |->
                                     IF ok THEN CellNumber(latest.commission) ELSE 0])]

\* by_keyword: the call site writes get_day_settings(chat_id=chat_id)
Sheets_get_day_settings(st, chat_id, by_keyword) ==
    cache_result(st, "get_day_settings:", TRUE, "get_day_settings",
                 <<IF by_keyword THEN "chat_id=" \o chat_id ELSE chat_id>>,
                 LAMBDA s : get_day_settings_func(s, chat_id))

get_current_rate_func(st, chat_id) ==
    LET r == Sheets_get_day_settings(st, chat_id, TRUE)
    IN IF IsNone(r.ret) THEN r
       ELSE LET rate == Get(r.ret.val, "rate", 0)
            IN IF rate <= 0 THEN [st |-> r.st, ret |-> PyNone]
               ELSE [st |-> r.st, ret |-> Py(rate)]

Sheets_get_current_rate(st, chat_id) ==
    cache_result(st, "get_current_rate:", TRUE, "get_current_rate", <<chat_id>>,
                 LAMBDA s : get_current_rate_func(s, chat_id))

is_day_open_func(st, chat_id) ==
    IF st.dummy_mode THEN [st |-> st, ret |-> Py(st.day_open)]
    ELSE LET data_rows == st.status_sheet
             filtered == {i \in 1..Len(data_rows) : data_rows[i].chat_id = chat_id}
             st1 == [st EXCEPT !.io = TRUE]
         IN IF filtered = {} THEN [st |-> st1, ret |-> Py(FALSE)]
            ELSE LET latest_status ==
                         data_rows[LatestBy(data_rows, filtered, LAMBDA r : r.time)]
                 IN [st |-> st1,
                     ret |-> Py(latest_status.date = current_date
                                /\ latest_status.status = OPEN)]

Sheets_is_day_open(st, chat_id) ==
    cache_result(st, "is_day_open:", TRUE, "is_day_open", <<chat_id>>,
                 LAMBDA s : is_day_open_func(s, chat_id))

Sheets_set_day_status(st, is_open, chat_id) ==
    IF st.dummy_mode
    THEN [st |-> [st EXCEPT !.day_open = is_open,
                            !.cache_manager =
                                CacheManager_invalidate_pattern(@, "is_day_open")],
          ret |-> TRUE]
    ELSE [st |-> [st EXCEPT !.io = TRUE,
                            !.status_sheet =
                                Append(@, [date |-> current_date,
                                           status |-> IF is_open THEN OPEN ELSE CLOSED,
                                           time |-> TimeStr(now),
                                           chat_id |-> chat_id]),
                            !.cache_manager =
                                CacheManager_invalidate(@, "is_day_open:" \o chat_id)],
          ret |-> TRUE]

(***************************************************************************)
(* Selection of the transactions of a chat, shared by get_daily_statistics *)
(* and the facade: a dictionary matches by chat_id, or by group, and then  *)
(* its chat_id is assigned (t['chat_id'] = str_chat_id).                   *)
(***************************************************************************)
LegacyGroupChat == "-4605781130"
Test123Chat == "-4608567148"

\* 1: chat_id matches, 2: matched by group (chat_id is rewritten), 0: no match
MatchKind(t, str_chat_id, legacy) ==
    LET group_field == Get(t, "group", "")
    IN IF Get(t, "chat_id", "") = str_chat_id THEN 1
       ELSE IF group_field = str_chat_id THEN 2
       ELSE IF /\ legacy
               /\ group_field # "" /\ StartsWith(group_field, "E, ")
               /\ (Contains("Ilya Kuznetsov", group_field)
                   \/ Contains("XchangeBot", group_field))
               /\ str_chat_id = LegacyGroupChat THEN 2
       ELSE IF legacy /\ group_field = "Test123" /\ str_chat_id = Test123Chat THEN 2
       ELSE 0

Rewritten(t, str_chat_id) == DictSet(t, "chat_id", str_chat_id)

RECURSIVE FilterByChat(_, _, _)
FilterByChat(list, str_chat_id, legacy) ==
    IF list = <<>> THEN <<>>
    ELSE LET t == Head(list)
             k == MatchKind(t, str_chat_id, legacy)
             rest == FilterByChat(Tail(list), str_chat_id, legacy)
         IN IF k = 0 THEN rest
            ELSE IF k = 1 THEN <<t>> \o rest
            ELSE <<Rewritten(t, str_chat_id)>> \o rest

\* the objects whose chat_id the selection assigns
RewrittenObjs(list, str_chat_id, legacy) ==
    {list[i].obj : i \in {j \in 1..Len(list) :
                            MatchKind(list[j], str_chat_id, legacy) = 2}}

\* the assignment seen through every other reference to the same objects:
\* the cached lists (live mode), the stored dictionaries (dummy mode)
ApplyRewrite(st, objs, str_chat_id) ==
    IF objs = {} THEN st
    ELSE IF st.dummy_mode
    THEN [st EXCEPT !.daily_transactions =
            [i \in 1..Len(@) |->
                IF <<0, i>> \in objs THEN DictSet(@[i], "chat_id", str_chat_id)
                ELSE @[i]]]
    ELSE LET c == st.cache_manager.cache
             RewriteList(list) ==
                 [i \in 1..Len(list) |->
                     IF list[i].obj \in objs THEN Rewritten(list[i], str_chat_id)
                     ELSE list[i]]
         IN [st EXCEPT !.cache_manager.cache =
                [k \in DOMAIN c |->
                    IF IsList(c[k].value)
                    THEN [timestamp |-> c[k].timestamp,
                          value |-> PyList(RewriteList(c[k].value.list))]
                    ELSE c[k]]]

(***************************************************************************)
(* sheets.py: get_daily_statistics.  Amounts of money in the result are in *)
(* hundredths.  computed_for records the chat the result was computed for. *)
(***************************************************************************)
\* float(v): cells hold text in live mode, numbers in dummy mode
Num(st, v) == IF st.dummy_mode THEN v ELSE ParseDigits(v)
Truthy(st, v) == IF st.dummy_mode THEN v # 0 ELSE v # ""
Parses(st, v) == st.dummy_mode \/ v = "" \/ IsDigit(v)

EmptyStats(chat_id) ==
    [total_amount |-> 0, awaiting_amount |-> 0, to_pay_amount |-> 0,
     paid_amount |-> 0, avg_rate |-> 0, avg_commission |-> 0,
     transactions_count |-> 0, unpaid_usdt |-> 0, to_pay_usdt |-> 0,
     total_usdt |-> 0, paid_usdt |-> 0, methods_count |-> EmptyDict,
     computed_for |-> chat_id]

ErrorStats(chat_id) == DictSet(EmptyStats(chat_id), "date", current_date)

\* sum(F(t) for t in list)
SumOver(list, F(_)) == SumSeq([i \in 1..Len(list) |-> F(list[i])])

\* a variant that counts the paid transactions as awaiting too
ComputeStats_all_awaiting(st, transactions, day_settings, chat_id) ==
    LET current_rate == IF IsNone(day_settings) THEN 0
                        ELSE Get(day_settings.val, "rate", 0)
        current_commission == IF IsNone(day_settings) THEN 0
                              ELSE Get(day_settings.val, "commission_percent", 0)
        Amount(t) == IF Truthy(st, t.amount) THEN Num(st, t.amount) ELSE 0
        IsPaid(t) == Lower(Get(t, "status", "")) = Lower(PAID)
        paid_transactions == SelectSeq(transactions, IsPaid)
        unpaid_transactions == SelectSeq(transactions, LAMBDA t : ~IsPaid(t))
        total_amount == SumOver(transactions, Amount)
        paid_amount == SumOver(paid_transactions, Amount)
        awaiting_amount == SumOver(transactions, Amount)
        TxCommission(t) ==
            IF Truthy(st, Get(t, "commission", IF st.dummy_mode THEN 0 ELSE ""))
            THEN IF Parses(st, t.commission) THEN Num(st, t.commission)
                 ELSE current_commission
            ELSE current_commission
        \* amount * (1 - tx_commission / 100), in hundredths
        to_pay_amount == SumOver(unpaid_transactions,
                                 LAMBDA t : Amount(t) * (100 - TxCommission(t)))
        with_rate == SelectSeq(transactions,
                               LAMBDA t : Truthy(st, t.rate) /\ Parses(st, t.rate))
        with_commission == SelectSeq(transactions,
                               LAMBDA t : Truthy(st, t.commission)
                                          /\ Parses(st, t.commission))
        rates_sum == SumOver(with_rate, LAMBDA t : Num(st, t.rate))
        commissions_sum == SumOver(with_commission, LAMBDA t : Num(st, t.commission))
        \* avg_rate = avg_num / avg_den
        avg_num == IF with_rate # <<>> THEN rates_sum ELSE current_rate
        avg_den == IF with_rate # <<>> THEN Len(with_rate) ELSE 1
        \* usdt_rate = usdt_num / usdt_den
        usdt_num == IF current_rate > 0 THEN current_rate
                    ELSE IF avg_num > 0 THEN avg_num ELSE FallbackRate
        usdt_den == IF current_rate > 0 THEN 1
                    ELSE IF avg_num > 0 THEN avg_den ELSE 1
        methods == {t.method : t \in {transactions[i] : i \in 1..Len(transactions)}}
    IN [date |-> current_date,
        transactions_count |-> Len(transactions),
        total_amount |-> 100 * total_amount,
        awaiting_amount |-> 100 * awaiting_amount,
        to_pay_amount |-> to_pay_amount,
        paid_amount |-> 100 * paid_amount,
        avg_rate |-> Round2(avg_num, avg_den),
        avg_commission |-> IF with_commission # <<>>
                           THEN Round2(commissions_sum, Len(with_commission))
                           ELSE 100 * current_commission,
        unpaid_usdt |-> Round2(awaiting_amount * usdt_den, usdt_num),
        to_pay_usdt |-> Round2(to_pay_amount * usdt_den, 100 * usdt_num),
        total_usdt |-> Round2(total_amount * usdt_den, usdt_num),
        paid_usdt |-> Round2(paid_amount * usdt_den, usdt_num),
        methods_count |->
            [m \in methods |->
                Cardinality({i \in 1..Len(transactions) : transactions[i].method = m})],
        computed_for |-> chat_id]

ComputeStats(st, transactions, day_settings, chat_id) ==
    LET current_rate == IF IsNone(day_settings) THEN 0
                        ELSE Get(day_settings.val, "rate", 0)
        current_commission == IF IsNone(day_settings) THEN 0
                              ELSE Get(day_settings.val, "commission_percent", 0)
        Amount(t) == IF Truthy(st, t.amount) THEN Num(st, t.amount) ELSE 0
        IsPaid(t) == Lower(Get(t, "status", "")) = Lower(PAID)
        paid_transactions == SelectSeq(transactions, IsPaid)
        unpaid_transactions == SelectSeq(transactions, LAMBDA t : ~IsPaid(t))
        total_amount == SumOver(transactions, Amount)
        paid_amount == SumOver(paid_transactions, Amount)
        awaiting_amount == SumOver(unpaid_transactions, Amount)
        TxCommission(t) ==
            IF Truthy(st, Get(t, "commission", IF st.dummy_mode THEN 0 ELSE ""))
            THEN IF Parses(st, t.commission) THEN Num(st, t.commission)
                 ELSE current_commission
            ELSE current_commission
        \* amount * (1 - tx_commission / 100), in hundredths
        to_pay_amount == SumOver(unpaid_transactions,
                                 LAMBDA t : Amount(t) * (100 - TxCommission(t)))
        with_rate == SelectSeq(transactions,
                               LAMBDA t : Truthy(st, t.rate) /\ Parses(st, t.rate))
        with_commission == SelectSeq(transactions,
                               LAMBDA t : Truthy(st, t.commission)
                                          /\ Parses(st, t.commission))
        rates_sum == SumOver(with_rate, LAMBDA t : Num(st, t.rate))
        commissions_sum == SumOver(with_commission, LAMBDA t : Num(st, t.commission))
        \* avg_rate = avg_num / avg_den
        avg_num == IF with_rate # <<>> THEN rates_sum ELSE current_rate
        avg_den == IF with_rate # <<>> THEN Len(with_rate) ELSE 1
        \* usdt_rate = usdt_num / usdt_den
        usdt_num == IF current_rate > 0 THEN current_rate
                    ELSE IF avg_num > 0 THEN avg_num ELSE FallbackRate
        usdt_den == IF current_rate > 0 THEN 1
                    ELSE IF avg_num > 0 THEN avg_den ELSE 1
        methods == {t.method : t \in {transactions[i] : i \in 1..Len(transactions)}}
    IN [date |-> current_date,
        transactions_count |-> Len(transactions),
        total_amount |-> 100 * total_amount,
        awaiting_amount |-> 100 * awaiting_amount,
        to_pay_amount |-> to_pay_amount,
        paid_amount |-> 100 * paid_amount,
        avg_rate |-> Round2(avg_num, avg_den),
        avg_commission |-> IF with_commission # <<>>
                           THEN Round2(commissions_sum, Len(with_commission))
                           ELSE 100 * current_commission,
        unpaid_usdt |-> Round2(awaiting_amount * usdt_den, usdt_num),
        to_pay_usdt |-> Round2(to_pay_amount * usdt_den, 100 * usdt_num),
        total_usdt |-> Round2(total_amount * usdt_den, usdt_num),
        paid_usdt |-> Round2(paid_amount * usdt_den, usdt_num),
        methods_count |->
            [m \in methods |->
                Cardinality({i \in 1..Len(transactions) : transactions[i].method = m})],
        computed_for |-> chat_id]

get_daily_statistics_func(st, chat_id, force_refresh) ==
    LET cache_key == "daily_stats_" \o chat_id \o "_" \o current_date
        st1 == IF force_refresh /\ cache_key \in DOMAIN st.cache
               THEN [st EXCEPT !.cache = DictDel(@, cache_key),
                               !.cache_manager =
                                   CacheManager_invalidate_pattern(@, "get_daily_statistics")]
               ELSE st
    IN IF ~force_refresh /\ cache_key \in DOMAIN st1.cache
       THEN [st |-> st1, ret |-> Py(st1.cache[cache_key])]
       ELSE
       LET r == Sheets_get_all_transactions(st1, Py(current_date), FALSE, FALSE)
           all == r.ret.list
           transactions == FilterByChat(all, chat_id, TRUE)
           st2 == ApplyRewrite(r.st, RewrittenObjs(all, chat_id, TRUE), chat_id)
       IN IF transactions = <<>>
          THEN [st |-> [st2 EXCEPT !.cache = DictSet(@, cache_key, EmptyStats(chat_id))],
                ret |-> Py(EmptyStats(chat_id))]
          ELSE
          LET s == Sheets_get_day_settings(st2, chat_id, TRUE)
          IN IF \E i \in 1..Len(transactions) : ~Parses(st, transactions[i].amount)
             THEN [st |-> s.st, ret |-> Py(ErrorStats(chat_id))]
             ELSE LET result == ComputeStats(st, transactions, s.ret, chat_id)
                  IN [st |-> [s.st EXCEPT !.cache = DictSet(@, cache_key, result)],
                      ret |-> Py(result)]

Sheets_get_daily_statistics(st, chat_id, force_refresh) ==
    cache_result(st, "get_daily_statistics", FALSE, "get_daily_statistics",
                 <<chat_id, "force_refresh=" \o StrBool(force_refresh)>>,
                 LAMBDA s : get_daily_statistics_func(s, chat_id, force_refresh))

(***************************************************************************)
(* database.py: DatabaseManager over models.py                             *)
(*   transactions   the rows of Transaction, in insertion order            *)
(*   settings       the rows of ChatSettings                               *)
(*   down           the connection is lost: a query or commit raises       *)
(***************************************************************************)
DatabaseManager_init == [transactions |-> <<>>, settings |-> <<>>, down |-> FALSE]

\* Transaction.to_dict
to_dict(tx) ==
    [id |-> tx.id,
     datetime |-> DateStr(tx.created_day) \o " " \o TimeStr(tx.created_time),
     amount |-> tx.amount, method |-> tx.method, commission |-> tx.commission,
     rate |-> tx.rate, status |-> tx.status, group |-> tx.chat_id,
     hash |-> tx.transaction_hash, obj |-> <<0, 0>>]

\* isinstance(v, str): str() of a text is the text in quotes
IsStr(v) == SubSeq(ToString(v), 1, 1) = "\""

\* s.replace(c, "") for a character c
RECURSIVE Without(_, _)
Without(s, c) ==
    IF Len(s) = 0 THEN ""
    ELSE (IF SubSeq(s, 1, 1) = c THEN "" ELSE SubSeq(s, 1, 1))
         \o Without(SubSeq(s, 2, Len(s)), c)

\* int(v.replace(c, "")) or float(v.replace(c, "")) of a text v, v itself
\* otherwise; Converts: the conversion does not raise ValueError
Converts(v, c) == ~IsStr(v) \/ IsDigit(Without(v, c))
Converted(v, c) == IF IsStr(v) THEN ParseDigits(Without(v, c)) ELSE v

\* ChatSettings.query.first(), creating the global row when there is none;
\* first a variant that adds a row of its own on every call
get_or_create_chat_settings_always_create(db) ==
    [db EXCEPT !.settings =
        <<[chat_id |-> "1", chat_name |-> "Global Settings",
           exchange_rate |-> 0, commission_percent |-> 0,
           is_day_open |-> FALSE]>> \o @]

get_or_create_chat_settings(db) ==
    IF db.settings # <<>> THEN db
    ELSE [db EXCEPT !.settings =
            <<[chat_id |-> "1", chat_name |-> "Global Settings",
               exchange_rate |-> 0, commission_percent |-> 0,
               is_day_open |-> FALSE]>>]

\* kwargs: a function from the names given to their values.  The row the
\* lookup creates is committed by get_or_create_chat_settings itself; a value
\* float() rejects raises after that, the except branch rolls the assignments
\* back and returns False.
update_chat_settings(db, chat_id, kwargs) ==
    IF db.down THEN [st |-> db, ret |-> FALSE]  \* the except branch
    ELSE
    LET db1 == get_or_create_chat_settings(db)
        Field(name) == IF name \in DOMAIN kwargs
                       THEN (IF name = "is_day_open" THEN kwargs[name]
                             ELSE Converted(kwargs[name], ""))
                       ELSE db1.settings[1][name]
        raised == \E name \in DOMAIN kwargs \ {"is_day_open"} :
                      ~Converts(kwargs[name], "")
    IN IF raised THEN [st |-> db1, ret |-> FALSE]
       ELSE [st |-> [db1 EXCEPT !.settings[1] =
                        [chat_id |-> @.chat_id, chat_name |-> @.chat_name,
                         exchange_rate |-> Field("exchange_rate"),
                         commission_percent |-> Field("commission_percent"),
                         is_day_open |-> Field("is_day_open")]],
             ret |-> TRUE]

Db_save_day_settings(db, chat_id, rate, commission_percent) ==
    update_chat_settings(db, chat_id,
        [k \in {"exchange_rate", "commission_percent", "is_day_open"} |->
            IF k = "exchange_rate" THEN rate
            ELSE IF k = "commission_percent" THEN commission_percent
            ELSE TRUE])

Db_get_day_settings(db, chat_id) ==
    IF db.down THEN [st |-> db, ret |-> PyRaise]  \* no try around the query
    ELSE
    [st |-> db,
     ret |-> IF db.settings = <<>> THEN PyNone
             ELSE Py([date |-> current_date,
                      rate |-> db.settings[1].exchange_rate,
                      commission_percent |-> db.settings[1].commission_percent,
                      is_open |-> db.settings[1].is_day_open])]

Db_is_day_open(db, chat_id) ==
    IF db.down THEN [st |-> db, ret |-> PyRaise]  \* no try around the query
    ELSE
    [st |-> db,
     ret |-> Py(IF db.settings = <<>> THEN FALSE ELSE db.settings[1].is_day_open)]

Db_set_day_status(db, chat_id, is_open) ==
    update_chat_settings(db, chat_id, [k \in {"is_day_open"} |-> is_open])

\* the character the conversion of a text field removes first
Stripped(key) == IF key = "amount" THEN " " ELSE IF key = "commission" THEN "%" ELSE ""
NumberKeys == {"amount", "commission", "rate"}

\* a text field that does not convert raises before the row is created; the
\* except branch rolls back and raises again
Db_add_transaction(db, chat_id, data) ==
    IF db.down THEN [st |-> db, ret |-> PyRaise]  \* rollback and raise
    ELSE
    LET ids == {db.transactions[i].id : i \in 1..Len(db.transactions)}
        raised == \E k \in NumberKeys \cap DOMAIN data : ~Converts(data[k], Stripped(k))
        transaction ==
            [id |-> IF ids = {} THEN 1 ELSE MaxOf(ids) + 1,
             chat_id |-> chat_id,
             amount |-> Converted(Get(data, "amount", 0), " "),
             method |-> Get(data, "method", ""),
             commission |-> Converted(Get(data, "commission", 0), "%"),
             rate |-> Converted(Get(data, "rate", 0), ""),
             status |-> NOT_PAID,
             transaction_hash |-> Get(data, "hash", ""),
             created_day |-> today, created_time |-> now]
    IN IF raised THEN [st |-> db, ret |-> PyRaise]
       ELSE [st |-> [db EXCEPT !.transactions = Append(@, transaction)],
             ret |-> Py(transaction.id)]

\* Transaction.query.get(transaction_id): the index of the row or 0
DbFind(db, transaction_id) ==
    LET hits == {i \in 1..Len(db.transactions) :
                    db.transactions[i].id = transaction_id}
    IN IF hits = {} THEN 0 ELSE CHOOSE i \in hits : TRUE

\* the columns in the order update_transaction assigns them, with their keys
UpdateOrder == <<"amount", "method", "commission", "rate", "status", "hash">>
ColumnOf(key) == IF key = "hash" THEN "transaction_hash" ELSE key

\* the object after the assignments for the first n keys of UpdateOrder
RECURSIVE Assigned(_, _, _)
Assigned(tx, data, n) ==
    IF n = 0 THEN tx
    ELSE LET key == UpdateOrder[n]
             before == Assigned(tx, data, n - 1)
         IN IF key \notin DOMAIN data THEN before
            ELSE [before EXCEPT ![ColumnOf(key)] =
                     IF key \in NumberKeys THEN Converted(data[key], Stripped(key))
                     ELSE data[key]]

\* the number of keys assigned before a conversion raises, or -1 if none does
FirstRaise(data) ==
    LET bad == {n \in 1..Len(UpdateOrder) :
                   /\ UpdateOrder[n] \in NumberKeys \cap DOMAIN data
                   /\ ~Converts(data[UpdateOrder[n]], Stripped(UpdateOrder[n]))}
    IN IF bad = {} THEN -1 ELSE (CHOOSE n \in bad : \A m \in bad : n <= m) - 1

\* the assignments are made on the session's object: commit writes the
\* object to its row, and the rollback of the except branch discards it;
\* first a variant that reports success for an id the table does not hold
Db_update_transaction_found_or_not(db, transaction_id, data) ==
    IF db.down THEN [st |-> db, ret |-> FALSE]  \* the except branch
    ELSE
    LET i == DbFind(db, transaction_id)
        n == FirstRaise(data)
    IN IF i = 0 THEN [st |-> db, ret |-> TRUE]
       ELSE IF n >= 0
       THEN [st |-> db, ret |-> FALSE]
       ELSE [st |-> [db EXCEPT !.transactions[i] =
                        Assigned(@, data, Len(UpdateOrder))],
             ret |-> TRUE]

Db_update_transaction(db, transaction_id, data) ==
    IF db.down THEN [st |-> db, ret |-> FALSE]  \* the except branch
    ELSE
    LET i == DbFind(db, transaction_id)
        n == FirstRaise(data)
    IN IF i = 0 THEN [st |-> db, ret |-> FALSE]
       ELSE IF n >= 0
       THEN [st |-> db, ret |-> FALSE]
       ELSE [st |-> [db EXCEPT !.transactions[i] =
                        Assigned(@, data, Len(UpdateOrder))],
             ret |-> TRUE]

Db_get_transaction(db, transaction_id) ==
    IF db.down THEN [st |-> db, ret |-> PyNone]  \* the except branch
    ELSE
    LET i == DbFind(db, transaction_id)
    IN [st |-> db,
        ret |-> IF i = 0 THEN PyNone ELSE Py(to_dict(db.transactions[i]))]

\* rows in the order of order_by(desc(created_at)); equal times by descending id
RECURSIVE OrderDesc(_)
OrderDesc(rows) ==
    IF rows = {} THEN <<>>
    ELSE LET first == CHOOSE r \in rows : \A q \in rows :
                          \/ q.created_day < r.created_day
                          \/ (q.created_day = r.created_day
                              /\ q.created_time < r.created_time)
                          \/ (q.created_day = r.created_day
                              /\ q.created_time = r.created_time /\ q.id <= r.id)
         IN <<first>> \o OrderDesc(rows \ {first})

\* date: PyNone or Py(the day index of the date text)
Db_get_all_transactions(db, chat_id, date) ==
    IF db.down THEN [st |-> db, ret |-> PyList(<<>>)]  \* the except branch
    ELSE
    LET rows == {db.transactions[i] : i \in
                    {j \in 1..Len(db.transactions) :
                        /\ db.transactions[j].chat_id = chat_id
                        /\ (IsNone(date) \/ db.transactions[j].created_day = date.val)}}
        ordered == OrderDesc(rows)
    IN [st |-> db, ret |-> PyList([i \in 1..Len(ordered) |-> to_dict(ordered[i])])]

Db_get_daily_transactions(db, chat_id) ==
    Db_get_all_transactions(db, chat_id, Py(today))

Db_get_unpaid_transactions(db, chat_id) ==
    IF db.down THEN [st |-> db, ret |-> PyList(<<>>)]  \* the except branch
    ELSE
    LET rows == SelectSeq(db.transactions,
                          LAMBDA r : r.chat_id = chat_id /\ r.status = NOT_PAID)
    IN [st |-> db, ret |-> PyList([i \in 1..Len(rows) |-> to_dict(rows[i])])]

\* a variant that refuses a transaction that is already paid
Db_mark_transaction_paid_once(db, transaction_id, transaction_hash) ==
    LET i == DbFind(db, transaction_id)
    IN IF i # 0 /\ db.transactions[i].status = PAID
       THEN [st |-> db, ret |-> FALSE]
       ELSE Db_update_transaction(db, transaction_id,
                [k \in {"status", "hash"} |->
                    IF k = "status" THEN PAID ELSE transaction_hash])

Db_mark_transaction_paid(db, transaction_id, transaction_hash) ==
    Db_update_transaction(db, transaction_id,
        [k \in {"status", "hash"} |-> IF k = "status" THEN PAID ELSE transaction_hash])

Db_get_current_rate(db, chat_id) ==
    IF db.down THEN [st |-> db, ret |-> PyRaise]  \* the settings query is outside the try
    ELSE
    [st |-> db,
     ret |-> IF db.settings # <<>> /\ db.settings[1].exchange_rate # 0
             THEN Py(db.settings[1].exchange_rate)
             ELSE IF db.transactions = <<>> THEN PyNone
             ELSE LET latest == OrderDesc({db.transactions[i] :
                                              i \in 1..Len(db.transactions)})[1]
                  IN IF latest.rate # 0 THEN Py(latest.rate) ELSE PyNone]

\* The with statement binds the Flask application context to session; an
\* application context has no attribute query, so session.query(...) raises
\* AttributeError on every call and the outer except returns the zeroed
\* record.
Db_get_daily_statistics(db, chat_id, force_refresh) ==
    [st |-> db,
     ret |-> Py([total_amount |-> 0, awaiting_amount |-> 0, to_pay_amount |-> 0,
                 paid_amount |-> 0, avg_rate |-> 0, avg_commission |-> 0,
                 transactions_count |-> 0, unpaid_usdt |-> 0, to_pay_usdt |-> 0,
                 total_usdt |-> 0, paid_usdt |-> 0, computed_for |-> chat_id])]

(***************************************************************************)
(* data_manager.py: DataManager.  A facade operation takes the three       *)
(* objects as one record w = [dm, sc, db] and returns [w, ret].            *)
(***************************************************************************)
DataManager_init(USE_DATABASE) ==
    [data_source |-> IF USE_DATABASE THEN "database" ELSE "sheets",
     stats_cache |-> EmptyDict]

OnDb(w, r) == [w |-> [w EXCEPT !.db = r.st], ret |-> r.ret]
OnSheets(w, r) == [w |-> [w EXCEPT !.sc = r.st], ret |-> r.ret]

DM_get_day_settings(w, chat_id) ==
    IF w.dm.data_source = "database"
    THEN OnDb(w, Db_get_day_settings(w.db, chat_id))
    ELSE OnSheets(w, Sheets_get_day_settings(w.sc, chat_id, FALSE))

DM_is_day_open(w, chat_id) ==
    IF w.dm.data_source = "database"
    THEN OnDb(w, Db_is_day_open(w.db, chat_id))
    ELSE OnSheets(w, Sheets_is_day_open(w.sc, chat_id))

\* a variant that writes the status to the spreadsheet as well
DM_set_day_status_mirrored(w, chat_id, is_open) ==
    IF w.dm.data_source = "database"
    THEN LET r == OnDb(w, Db_set_day_status(w.db, chat_id, is_open))
         IN [w |-> OnSheets(r.w, Sheets_set_day_status(r.w.sc, is_open, chat_id)).w,
             ret |-> r.ret]
    ELSE OnSheets(w, Sheets_set_day_status(w.sc, is_open, chat_id))

DM_set_day_status(w, chat_id, is_open) ==
    IF w.dm.data_source = "database"
    THEN OnDb(w, Db_set_day_status(w.db, chat_id, is_open))
    ELSE OnSheets(w, Sheets_set_day_status(w.sc, is_open, chat_id))

DM_save_day_settings(w, chat_id, rate, commission_percent) ==
    IF w.dm.data_source = "database"
    THEN OnDb(w, Db_save_day_settings(w.db, chat_id, rate, commission_percent))
    ELSE OnSheets(w, Sheets_save_day_settings(w.sc, rate, commission_percent, chat_id))

DM_add_transaction(w, chat_id, data) ==
    IF w.dm.data_source = "database"
    THEN OnDb(w, Db_add_transaction(w.db, chat_id, data))
    ELSE LET data1 == DictSet(data, "chat_id", chat_id)
             data2 == IF "group" \notin DOMAIN data1 \/ data1["group"] = ""
                      THEN DictSet(data1, "group", chat_id) ELSE data1
         IN OnSheets(w, Sheets_add_transaction(w.sc, data2))

DM_update_transaction(w, transaction_id, data) ==
    IF w.dm.data_source = "database"
    THEN OnDb(w, Db_update_transaction(w.db, transaction_id, data))
    ELSE OnSheets(w, Sheets_update_transaction(w.sc, transaction_id, data))

DM_get_transaction(w, transaction_id) ==
    IF w.dm.data_source = "database"
    THEN OnDb(w, Db_get_transaction(w.db, transaction_id))
    ELSE OnSheets(w, Sheets_get_transaction(w.sc, transaction_id))

\* the selection the three list reads of the facade apply to a store result
FacadeFilter(w, r, chat_id) ==
    [w |-> [w EXCEPT !.sc = ApplyRewrite(r.st, RewrittenObjs(r.ret.list, chat_id, FALSE),
                                         chat_id)],
     ret |-> PyList(FilterByChat(r.ret.list, chat_id, FALSE))]

\* date: PyNone or Py(day index); the text of the date is DateStr(day)
DM_get_all_transactions(w, chat_id, date) ==
    LET date1 == IF IsNone(date) THEN current_date ELSE DateStr(date.val)
    IN IF w.dm.data_source = "database"
       THEN OnDb(w, Db_get_daily_transactions(w.db, chat_id))
       ELSE FacadeFilter(w, Sheets_get_all_transactions(w.sc, Py(date1), TRUE, TRUE),
                         chat_id)

DM_get_daily_transactions(w, chat_id) ==
    IF w.dm.data_source = "database"
    THEN OnDb(w, Db_get_daily_transactions(w.db, chat_id))
    ELSE FacadeFilter(w, Sheets_get_daily_transactions(w.sc, TRUE), chat_id)

DM_get_unpaid_transactions(w, chat_id) ==
    IF w.dm.data_source = "database"
    THEN OnDb(w, Db_get_unpaid_transactions(w.db, chat_id))
    ELSE FacadeFilter(w, Sheets_get_unpaid_transactions(w.sc, TRUE), chat_id)

DM_mark_transaction_paid(w, transaction_id, transaction_hash) ==
    IF w.dm.data_source = "database"
    THEN OnDb(w, Db_mark_transaction_paid(w.db, transaction_id, transaction_hash))
    ELSE OnSheets(w, Sheets_mark_transaction_paid(w.sc, transaction_id, transaction_hash))

DM_get_current_rate(w, chat_id) ==
    IF w.dm.data_source = "database"
    THEN OnDb(w, Db_get_current_rate(w.db, chat_id))
    ELSE OnSheets(w, Sheets_get_current_rate(w.sc, chat_id))

DM_get_daily_statistics(w, chat_id, force_refresh) ==
    LET cache_key == "day_stats_" \o chat_id
    IN IF ~force_refresh /\ cache_key \in DOMAIN w.dm.stats_cache
       THEN [w |-> w, ret |-> Py(w.dm.stats_cache[cache_key])]
       ELSE LET r == IF w.dm.data_source = "database"
                     THEN OnDb(w, Db_get_daily_statistics(w.db, chat_id, force_refresh))
                     ELSE OnSheets(w, Sheets_get_daily_statistics(w.sc, chat_id,
                                                                  force_refresh))
            IN [w |-> [r.w EXCEPT !.dm.stats_cache = DictSet(@, cache_key, r.ret.val)],
                ret |-> r.ret]

\* the keys of stats_cache are the texts "day_stats_<chat_id>"; the test
\* chat_id in self.stats_cache compares them with the integer chat_id
DM_clear_stats_cache(w, chat_id) ==
    IF \E k \in DOMAIN w.dm.stats_cache : k = chat_id
    THEN [w |-> [w EXCEPT !.dm.stats_cache = DictDel(@, chat_id)], ret |-> PyNone]
    ELSE [w |-> w, ret |-> PyNone]

(***************************************************************************)
(* sheets.py: migrate_transaction_data, run when the module is imported    *)
(***************************************************************************)
group_mapping ==
    <<[group |-> "E, Ilya Kuznetsov i XchangeBot", chat_id |-> LegacyGroupChat],
      [group |-> "Test123", chat_id |-> Test123Chat]>>

\* the chat_id of the first mapping the group matches, or ""
MappedChat(group) ==
    LET hits == {i \in 1..Len(group_mapping) :
                    \/ StartsWith(group, group_mapping[i].group)
                    \/ group = group_mapping[i].chat_id}
    IN IF hits = {} THEN ""
       ELSE group_mapping[CHOOSE i \in hits : \A j \in hits : i <= j].chat_id

RECURSIVE MigrateLoop(_, _, _)
MigrateLoop(st, txs, updated_count) ==
    IF txs = <<>> THEN [st |-> st, ret |-> updated_count]
    ELSE LET tx == Head(txs)
             chat_id == Get(tx, "chat_id", "")
             new_chat_id == MappedChat(Get(tx, "group", ""))
         IN IF chat_id # "" /\ StartsWith(chat_id, "-")
            THEN MigrateLoop(st, Tail(txs), updated_count)
            ELSE IF new_chat_id = ""
            THEN MigrateLoop(st, Tail(txs), updated_count)
            ELSE MigrateLoop(
                    Sheets_update_transaction(
                        st, tx.id, [k \in {"chat_id"} |-> new_chat_id]).st,
                    Tail(txs), updated_count + 1)

migrate_transaction_data(st) ==
    LET r == Sheets_get_all_transactions(st, PyNone, TRUE, TRUE)
    IN MigrateLoop(r.st, r.ret.list, 0)

(***************************************************************************)
(* State: the three module-level objects, the clock, and what the last     *)
(* call was, when it was made, what it returned, whether it repeated the   *)
(* call before it, and the ids add_transaction has returned.               *)
(***************************************************************************)
VARIABLES sheets_client, db_manager, data_manager, pc, last_call, last_ret,
          last_time, repeated, assigned

vars == <<now, today, sheets_client, db_manager, data_manager, pc,
          last_call, last_ret, last_time, repeated, assigned>>

\* inputs
Chats == {Test123Chat, "-1"}
TxIds == 1..(MaxTx + 1)
Hashes == {"h1", "h2"}
Rates == {100, 50}
Commissions == {10}

BaseData(amount) ==
    [k \in RequiredKeys |->
        IF k = "amount" THEN amount
        ELSE IF k = "method" THEN "USDT"
        ELSE IF k = "commission" THEN 10
        ELSE 100]
AddData == {BaseData(1000), DictSet(BaseData(2000), "hash", "h0")}
UpdateData ==
    {[k \in {"status"} |-> PAID], [k \in {"status"} |-> NOT_PAID],
     [k \in {"id"} |-> 0]}

\* a row written before the chat_id column existed
LegacyRow ==
    [id |-> "1", datetime |-> DateStr(1) \o " 11:00:00", amount |-> "1000",
     method |-> "USDT", commission |-> "10", rate |-> "100", status |-> NOT_PAID,
     group |-> "Test123", hash |-> "", chat_id |-> ""]
InitialSheets == {<<>>, <<LegacyRow>>}

Modes == {"live", "dummy", "database"}

InitMode(mode) ==
    /\ now = 0 /\ today = 1
    /\ data_manager = DataManager_init(mode = "database")
    /\ sheets_client \in IF mode = "live"
                         THEN {GoogleSheetsClient_init(rows) : rows \in InitialSheets}
                         ELSE {initialize_dummy_mode}
    /\ db_manager = DatabaseManager_init
    /\ pc = "import"
    /\ last_call = [op |-> "none"]
    /\ last_ret = PyNone
    /\ last_time = 0
    /\ repeated = FALSE
    /\ assigned = <<>>

Init == \E mode \in Modes : InitMode(mode)

World == [dm |-> data_manager, sc |-> [sheets_client EXCEPT !.io = FALSE],
          db |-> db_manager]

Return(call, r) ==
    /\ data_manager' = r.w.dm
    /\ sheets_client' = r.w.sc
    /\ db_manager' = r.w.db
    /\ last_call' = call
    /\ last_ret' = r.ret
    /\ last_time' = now
    /\ repeated' = (call = last_call)
    /\ UNCHANGED <<now, today, pc>>

\* the cache manager has served fewer than MaxGets lookups
GetsOk == sheets_client.cache_manager.hits + sheets_client.cache_manager.misses < MaxGets

Tick == /\ now + TickStep <= MaxTime
        /\ now' = now + TickStep
        /\ \E roll \in BOOLEAN :
              today' = IF roll /\ today < MaxDay THEN today + 1 ELSE today
        /\ UNCHANGED <<sheets_client, db_manager, data_manager, pc,
                       last_call, last_ret, last_time, repeated, assigned>>

\* import of sheets.py: the migration runs once
Startup ==
    /\ pc = "import"
    /\ LET r == migrate_transaction_data(World.sc)
       IN /\ sheets_client' = r.st
          /\ last_call' = [op |-> "migrate_transaction_data"]
          /\ last_ret' = Py(r.ret)
    /\ pc' = "run"
    /\ UNCHANGED <<now, today, db_manager, data_manager, last_time, repeated,
                   assigned>>

add_transaction ==
    /\ pc = "run" /\ Len(assigned) < MaxTx
    /\ \E chat_id \in Chats, data \in AddData :
          LET r == DM_add_transaction(World, chat_id, data)
          IN /\ Return([op |-> "add_transaction", chat_id |-> chat_id, data |-> data], r)
             /\ assigned' = IF IsRaise(r.ret) THEN assigned
                            ELSE Append(assigned, r.ret.val)

update_transaction ==
    /\ pc = "run"
    /\ \E transaction_id \in TxIds, data \in UpdateData :
          /\ Return([op |-> "update_transaction", transaction_id |-> transaction_id,
                     data |-> data],
                    DM_update_transaction(World, transaction_id, data))
          /\ UNCHANGED assigned

mark_transaction_paid ==
    /\ pc = "run" /\ GetsOk
    /\ \E transaction_id \in TxIds, transaction_hash \in Hashes :
          /\ Return([op |-> "mark_transaction_paid", transaction_id |-> transaction_id,
                     transaction_hash |-> transaction_hash],
                    DM_mark_transaction_paid(World, transaction_id, transaction_hash))
          /\ UNCHANGED assigned

get_transaction ==
    /\ pc = "run" /\ GetsOk
    /\ \E transaction_id \in TxIds :
          /\ Return([op |-> "get_transaction", transaction_id |-> transaction_id],
                    DM_get_transaction(World, transaction_id))
          /\ UNCHANGED assigned

get_all_transactions ==
    /\ pc = "run" /\ GetsOk
    /\ \E chat_id \in Chats, date \in {PyNone} \cup {Py(d) : d \in 1..MaxDay} :
          /\ Return([op |-> "get_all_transactions", chat_id |-> chat_id, date |-> date],
                    DM_get_all_transactions(World, chat_id, date))
          /\ UNCHANGED assigned

get_daily_transactions ==
    /\ pc = "run" /\ GetsOk
    /\ \E chat_id \in Chats :
          /\ Return([op |-> "get_daily_transactions", chat_id |-> chat_id],
                    DM_get_daily_transactions(World, chat_id))
          /\ UNCHANGED assigned

get_unpaid_transactions ==
    /\ pc = "run" /\ GetsOk
    /\ \E chat_id \in Chats :
          /\ Return([op |-> "get_unpaid_transactions", chat_id |-> chat_id],
                    DM_get_unpaid_transactions(World, chat_id))
          /\ UNCHANGED assigned

save_day_settings ==
    /\ pc = "run"
    /\ \E chat_id \in Chats, rate \in Rates, commission_percent \in Commissions :
          /\ Return([op |-> "save_day_settings", chat_id |-> chat_id, rate |-> rate,
                     commission_percent |-> commission_percent],
                    DM_save_day_settings(World, chat_id, rate, commission_percent))
          /\ UNCHANGED assigned

get_day_settings ==
    /\ pc = "run" /\ GetsOk
    /\ \E chat_id \in Chats :
          /\ Return([op |-> "get_day_settings", chat_id |-> chat_id],
                    DM_get_day_settings(World, chat_id))
          /\ UNCHANGED assigned

get_current_rate ==
    /\ pc = "run" /\ GetsOk
    /\ \E chat_id \in Chats :
          /\ Return([op |-> "get_current_rate", chat_id |-> chat_id],
                    DM_get_current_rate(World, chat_id))
          /\ UNCHANGED assigned

is_day_open ==
    /\ pc = "run" /\ GetsOk
    /\ \E chat_id \in Chats :
          /\ Return([op |-> "is_day_open", chat_id |-> chat_id],
                    DM_is_day_open(World, chat_id))
          /\ UNCHANGED assigned

set_day_status ==
    /\ pc = "run" /\ Len(sheets_client.status_sheet) < MaxStatus
    /\ \E chat_id \in Chats, is_open \in BOOLEAN :
          /\ Return([op |-> "set_day_status", chat_id |-> chat_id, is_open |-> is_open],
                    DM_set_day_status(World, chat_id, is_open))
          /\ UNCHANGED assigned

get_daily_statistics ==
    /\ pc = "run" /\ GetsOk
    /\ \E chat_id \in Chats, force_refresh \in BOOLEAN :
          /\ Return([op |-> "get_daily_statistics", chat_id |-> chat_id,
                     force_refresh |-> force_refresh],
                    DM_get_daily_statistics(World, chat_id, force_refresh))
          /\ UNCHANGED assigned

clear_stats_cache ==
    /\ pc = "run"
    /\ \E chat_id \in Chats :
          /\ Return([op |-> "clear_stats_cache", chat_id |-> chat_id],
                    DM_clear_stats_cache(World, chat_id))
          /\ UNCHANGED assigned

Next ==
    \/ Tick \/ Startup
    \/ add_transaction \/ update_transaction \/ mark_transaction_paid
    \/ get_transaction \/ get_all_transactions \/ get_daily_transactions
    \/ get_unpaid_transactions \/ save_day_settings \/ get_day_settings
    \/ get_current_rate \/ is_day_open \/ set_day_status
    \/ get_daily_statistics \/ clear_stats_cache

Spec == Init /\ [][Next]_vars

\* the life of a transaction of one chat: creation, status writes, payment
NextTx ==
    \/ Startup
    \/ add_transaction /\ last_call'.chat_id = Test123Chat
                       /\ "hash" \in DOMAIN last_call'.data
    \/ update_transaction /\ "status" \in DOMAIN last_call'.data
    \/ mark_transaction_paid
SpecTx == Init /\ [][NextTx]_vars

\* the ids of one chat: creation and updates
NextIds ==
    \/ Startup
    \/ add_transaction /\ last_call'.chat_id = Test123Chat
    \/ update_transaction
SpecIds == Init /\ [][NextIds]_vars

\* the reads of the live store through the cache, one chat, within one day
NextCache ==
    \/ Tick /\ today' = today
    \/ Startup
    \/ get_transaction
    \/ get_all_transactions /\ last_call'.chat_id = Test123Chat
                            /\ IsNone(last_call'.date)
    \/ get_daily_transactions /\ last_call'.chat_id = Test123Chat
    \/ get_unpaid_transactions /\ last_call'.chat_id = Test123Chat
    \/ get_day_settings /\ last_call'.chat_id = Test123Chat
    \/ get_current_rate /\ last_call'.chat_id = Test123Chat
    \/ is_day_open /\ last_call'.chat_id = Test123Chat
    \/ get_daily_statistics /\ last_call'.chat_id = Test123Chat
                            /\ last_call'.force_refresh
SpecCache == InitMode("live") /\ [][NextCache]_vars

\* writes of the live store between reads of one chat, at one time
NextStale ==
    \/ Startup
    \/ add_transaction /\ last_call'.chat_id = Test123Chat
                       /\ last_call'.data = BaseData(1000)
    \/ update_transaction /\ "status" \in DOMAIN last_call'.data
    \/ mark_transaction_paid /\ last_call'.transaction_hash = "h1"
    \/ get_unpaid_transactions /\ last_call'.chat_id = Test123Chat
SpecStale == InitMode("live") /\ [][NextStale]_vars

\* the statistics of two chats, at one time
NextStats ==
    \/ Startup
    \/ add_transaction /\ last_call'.data = BaseData(1000)
    \/ mark_transaction_paid /\ last_call'.transaction_id = 1
                             /\ last_call'.transaction_hash = "h1"
    \/ save_day_settings /\ last_call'.chat_id = Test123Chat
                         /\ last_call'.rate = 100
    \/ get_daily_statistics
    \/ clear_stats_cache
SpecStats == Init /\ [][NextStats]_vars

(***************************************************************************)
(* The stored transactions of the selected backend, in storage order: the  *)
(* rows of the worksheet, the dictionaries of daily_transactions, or the   *)
(* rows of the transactions table.                                         *)
(***************************************************************************)
TxStore ==
    IF data_manager.data_source = "database" THEN db_manager.transactions
    ELSE IF sheets_client.dummy_mode THEN sheets_client.daily_transactions
    ELSE sheets_client.sheet

TxStatus(t) == t.status
TxHash(t) == IF "transaction_hash" \in DOMAIN t THEN t.transaction_hash ELSE t.hash
TxRest(t) == [k \in DOMAIN t \ {"status", "hash", "transaction_hash"} |-> t[k]]

\* the worksheet holds the id as text
TxHasId(t, transaction_id) ==
    IF data_manager.data_source = "sheets" /\ ~sheets_client.dummy_mode
    THEN t.id = ToString(transaction_id)
    ELSE t.id = transaction_id

\* the position of the first stored transaction with the id, or 0
TxIndex(store, transaction_id) ==
    LET hits == {i \in 1..Len(store) : TxHasId(store[i], transaction_id)}
    IN IF hits = {} THEN 0 ELSE CHOOSE i \in hits : \A j \in hits : i <= j

(***************************************************************************)
(* C6.  Every add_transaction returns an id strictly greater than every    *)
(* id an earlier add_transaction on the same backend returned.             *)
(***************************************************************************)
C6_IdsStrictlyIncrease ==
    \A i, j \in 1..Len(assigned) : i < j => assigned[i] < assigned[j]

C9_AddedNotPaidEmptyHash ==
    (last_call.op = "add_transaction" /\ ~IsRaise(last_ret)) =>
        /\ TxStatus(TxStore[Len(TxStore)]) = NOT_PAID
        /\ TxHash(TxStore[Len(TxStore)]) = ""

(***************************************************************************)
(* The read-through cache.                                                 *)
(***************************************************************************)
Writes == {"add_transaction", "update_transaction", "mark_transaction_paid",
           "save_day_settings", "set_day_status"}
WrappedReads == {"get_transaction", "get_all_transactions",
                 "get_daily_transactions", "get_unpaid_transactions",
                 "get_day_settings", "get_current_rate", "is_day_open",
                 "get_daily_statistics"}
ForcedReads == {"get_all_transactions", "get_daily_transactions",
                "get_unpaid_transactions"}

\* the last call was a write and it succeeded
WriteSucceeded ==
    /\ last_call.op \in Writes
    /\ IF last_call.op = "add_transaction" THEN ~IsRaise(last_ret)
       ELSE last_ret = TRUE

\* every transaction held by an unexpired cached list has the status and
\* the hash of the row of the worksheet it was read from
CachedListsAgree ==
    LET c == sheets_client.cache_manager.cache
    IN \A k \in DOMAIN c :
          (IsList(c[k].value) /\ now - c[k].timestamp < CACHE_DURATION) =>
              \A i \in 1..Len(c[k].value.list) :
                  LET e == c[k].value.list[i]
                  IN /\ e.status = sheets_client.sheet[e.obj[2]].status
                     /\ e.hash = sheets_client.sheet[e.obj[2]].hash

(***************************************************************************)
(* C1.  After a successful write on the live store no unexpired cache      *)
(* entry written before it holds a transaction in its state before the     *)
(* write.                                                                  *)
(***************************************************************************)
C1_NoStaleEntryAfterWrite ==
    (~sheets_client.dummy_mode /\ WriteSucceeded) => CachedListsAgree

(***************************************************************************)
(* C2 as stated.  A wrapped read called twice in a row with the same       *)
(* arguments less than CACHE_DURATION apart is a hit the second time: hits *)
(* grows by one, misses does not, the worksheet is not read.               *)
(***************************************************************************)
C2_SecondCallHits ==
    [][(/\ now' = now /\ repeated' /\ last_call'.op \in WrappedReads
        /\ now - last_time < CACHE_DURATION) =>
          /\ sheets_client'.cache_manager.hits = sheets_client.cache_manager.hits + 1
          /\ sheets_client'.cache_manager.misses = sheets_client.cache_manager.misses
          /\ ~sheets_client'.io]_vars

(***************************************************************************)
(* C2 amended.  When a wrapped read missed the cache, read the worksheet   *)
(* and returned a value other than None, the same call made next and less  *)
(* than CACHE_DURATION later is a hit: hits grows by one, misses does not, *)
(* the worksheet is not read and the value returned is the same.           *)
(***************************************************************************)
C2_SecondCallHitsAfterCachedMiss ==
    [][(/\ now' = now /\ repeated' /\ last_call'.op \in WrappedReads
        /\ now - last_time < CACHE_DURATION
        /\ sheets_client.io /\ ~IsNone(last_ret)) =>
          /\ sheets_client'.cache_manager.hits = sheets_client.cache_manager.hits + 1
          /\ sheets_client'.cache_manager.misses = sheets_client.cache_manager.misses
          /\ ~sheets_client'.io
          /\ last_ret' = last_ret]_vars

\* the second of two identical reads was served from the cache
C2_Witness ==
    /\ last_call.op \in WrappedReads /\ repeated
    /\ ~sheets_client.io /\ ~IsNone(last_ret)
    /\ sheets_client.cache_manager.hits >= 1
    /\ sheets_client.cache_manager.misses >= 1

(***************************************************************************)
(* C3.  A list read of the facade, which always passes force_refresh=True, *)
(* and a statistics read with force_refresh=True read the worksheet.       *)
(***************************************************************************)
C3_ForcedReadReadsBackend ==
    (/\ ~sheets_client.dummy_mode
     /\ \/ last_call.op \in ForcedReads
        \/ (last_call.op = "get_daily_statistics" /\ last_call.force_refresh))
        => sheets_client.io

(***************************************************************************)
(* Daily statistics.                                                       *)
(***************************************************************************)
OnLiveSheet == data_manager.data_source = "sheets" /\ ~sheets_client.dummy_mode

\* the stored transactions of the chat made on the current day
TodayOf(chat_id) ==
    SelectSeq(TxStore,
              LAMBDA t : IF data_manager.data_source = "database"
                         THEN t.chat_id = chat_id /\ t.created_day = today
                         ELSE /\ chat_id \in {Get(t, "chat_id", ""), t.group}
                              /\ StartsWith(t.datetime, current_date))
StoredNumber(v) == IF OnLiveSheet THEN ParseDigits(v) ELSE v

(***************************************************************************)
(* C4.  The record get_daily_statistics returns for a chat was computed    *)
(* for that chat.                                                          *)
(***************************************************************************)
C4_StatsOfOwnChat ==
    last_call.op = "get_daily_statistics" =>
        last_ret.val.computed_for = last_call.chat_id

(***************************************************************************)
(* C5.  After add_transaction, save_day_settings or clear_stats_cache for  *)
(* a chat the facade holds no statistics record of that chat.              *)
(***************************************************************************)
C5_StatsCacheClearedByWrite ==
    (\/ last_call.op = "add_transaction" /\ ~IsRaise(last_ret)
     \/ last_call.op = "save_day_settings" /\ last_ret = TRUE
     \/ last_call.op = "clear_stats_cache") =>
        ("day_stats_" \o last_call.chat_id) \notin DOMAIN data_manager.stats_cache

(***************************************************************************)
(* C10.  The record a get_daily_statistics call with force_refresh=True    *)
(* computes from the store has total_amount, paid_amount, awaiting_amount  *)
(* and to_pay_amount (in hundredths) equal to the sums over the chat's     *)
(* transactions of the current day.                                        *)
(***************************************************************************)
C10_StatsAreTheSums ==
    (/\ last_call.op = "get_daily_statistics" /\ last_call.force_refresh
     /\ OnLiveSheet => sheets_client.io) =>
        LET txs == TodayOf(last_call.chat_id)
            paid == SelectSeq(txs, LAMBDA t : t.status = PAID)
            unpaid == SelectSeq(txs, LAMBDA t : t.status # PAID)
            Amount(t) == StoredNumber(t.amount)
        IN /\ last_ret.val.total_amount = 100 * SumOver(txs, Amount)
           /\ last_ret.val.paid_amount = 100 * SumOver(paid, Amount)
           /\ last_ret.val.awaiting_amount = 100 * SumOver(unpaid, Amount)
           /\ last_ret.val.to_pay_amount =
                  SumOver(unpaid, LAMBDA t : StoredNumber(t.amount)
                                              * (100 - StoredNumber(t.commission)))

(***************************************************************************)
(* C11.  When the store holds no transaction of the chat made on the       *)
(* current date, get_daily_statistics for the chat returns                 *)
(* transactions_count = 0 and every monetary field = 0.                    *)
(***************************************************************************)
MoneyFields ==
    {"total_amount", "awaiting_amount", "to_pay_amount", "paid_amount",
     "unpaid_usdt", "to_pay_usdt", "total_usdt", "paid_usdt"}

C11_NoTransactionsZeroStats ==
    (/\ last_call.op = "get_daily_statistics"
     /\ TodayOf(last_call.chat_id) = <<>>) =>
        /\ last_ret.val.transactions_count = 0
        /\ \A k \in MoneyFields : last_ret.val[k] = 0

(***************************************************************************)
(* Day settings and day status of one chat while every write is made for   *)
(* another chat: no call of this specification sets a status or saves      *)
(* settings for QuietChat.                                                 *)
(***************************************************************************)
QuietChat == Test123Chat
BusyChat == "-1"

NextOtherChat ==
    \/ Startup
    \/ save_day_settings /\ last_call'.chat_id = BusyChat
                         /\ last_call'.rate = 100
    \/ set_day_status /\ last_call'.chat_id = BusyChat
    \/ get_day_settings
    \/ is_day_open
SpecOtherChat == Init /\ [][NextOtherChat]_vars

(***************************************************************************)
(* C12.  is_day_open(C) returns false for a chat C for which no day        *)
(* status was ever set, on the live sheet, in dummy mode and on the        *)
(* database, whatever was written for other chats.                         *)
(***************************************************************************)
C12_NeverSetIsClosed ==
    (last_call.op = "is_day_open" /\ last_call.chat_id = QuietChat) =>
        last_ret = Py(FALSE)

(***************************************************************************)
(* C15.  On the sheet store, live or dummy, get_day_settings(C) returns    *)
(* None for a chat C for which no settings were ever saved.                *)
(***************************************************************************)
C15_NeverSavedIsNone ==
    (/\ data_manager.data_source = "sheets"
     /\ last_call.op = "get_day_settings" /\ last_call.chat_id = QuietChat) =>
        IsNone(last_ret)

(***************************************************************************)
(* The live DaySettings and DayStatus worksheets with rows of several      *)
(* days for one chat, in any row order, read on the last of the days.      *)
(***************************************************************************)
MaxRows == 2
TableDays == 1..MaxDay
TableTimes == {0, TickStep}

\* one use of the bot: at a time of a day the day status of the chat is set,
\* and a rate is saved, 100 with an open day and 50 with a closed one
DayEntries == [day : TableDays, time : TableTimes, is_open : BOOLEAN]
StatusRow(e) ==
    [date |-> DateStr(e.day), status |-> IF e.is_open THEN OPEN ELSE CLOSED,
     time |-> TimeStr(e.time), chat_id |-> QuietChat]
SettingsRow(e) ==
    [date |-> DateStr(e.day), rate |-> IF e.is_open THEN "100" ELSE "50",
     commission |-> "10", chat_id |-> QuietChat]
Tables == UNION {[1..n -> DayEntries] : n \in 1..MaxRows}

InitTables ==
    /\ now = 0 /\ today = MaxDay
    /\ data_manager = DataManager_init(FALSE)
    /\ \E t \in Tables :
          sheets_client =
              [GoogleSheetsClient_init(<<>>) EXCEPT
                  !.status_sheet = [i \in DOMAIN t |-> StatusRow(t[i])],
                  !.settings_sheet = [i \in DOMAIN t |-> SettingsRow(t[i])]]
    /\ db_manager = DatabaseManager_init
    /\ pc = "import"
    /\ last_call = [op |-> "none"]
    /\ last_ret = PyNone
    /\ last_time = 0
    /\ repeated = FALSE
    /\ assigned = <<>>

NextTables ==
    \/ Startup
    \/ get_day_settings /\ last_call'.chat_id = QuietChat
    \/ is_day_open /\ last_call'.chat_id = QuietChat
SpecTables == InitTables /\ [][NextTables]_vars

\* the day a date text names
DayOfDate(date) == CHOOSE d \in 1..(MaxDay + 1) : DateStr(d) = date

\* row a is not later than row b by date and then by time of day
NotLater(a, b) ==
    \/ DayOfDate(a.date) < DayOfDate(b.date)
    \/ /\ a.date = b.date
       /\ ("time" \in DOMAIN a => ~StrLess(b.time, a.time))

\* the rows of the table than which no row is later
ChronologicallyLatest(table) ==
    {r \in {table[i] : i \in 1..Len(table)} :
        \A i \in 1..Len(table) : NotLater(table[i], r)}

(***************************************************************************)
(* C13.  On the live sheet is_day_open(C) reports the status of a          *)
(* chronologically latest DayStatus row of C, and get_day_settings(C) the  *)
(* rate and commission of a chronologically latest DaySettings row of C,   *)
(* whatever days the rows of the tables are of.                            *)
(***************************************************************************)
C13_LatestRowWins ==
    /\ last_call.op = "is_day_open" =>
          \E r \in ChronologicallyLatest(sheets_client.status_sheet) :
              last_ret = Py(r.date = current_date /\ r.status = OPEN)
    /\ last_call.op = "get_day_settings" =>
          \E r \in ChronologicallyLatest(sheets_client.settings_sheet) :
              /\ last_ret.val.rate = CellNumber(r.rate)
              /\ last_ret.val.commission_percent = CellNumber(r.commission)

(***************************************************************************)
(* The writes of day settings and day status on the live sheet.            *)
(***************************************************************************)
NextDayWrites ==
    \/ Startup
    \/ save_day_settings
    \/ set_day_status
SpecDayWrites == InitMode("live") /\ [][NextDayWrites]_vars

\* every row of the table before is, at its position, a row of the table after
RowsKept(before, after) ==
    /\ Len(before) <= Len(after)
    /\ \A i \in 1..Len(before) : after[i] = before[i]

(***************************************************************************)
(* C14.  save_day_settings and set_day_status on the live sheet leave      *)
(* every row DaySettings and DayStatus already hold as it is: a call only  *)
(* adds a row.                                                             *)
(***************************************************************************)
C14_TablesAppendOnly ==
    [][last_call'.op \in {"save_day_settings", "set_day_status"} =>
          /\ RowsKept(sheets_client.settings_sheet, sheets_client'.settings_sheet)
          /\ RowsKept(sheets_client.status_sheet, sheets_client'.status_sheet)]_vars

(***************************************************************************)
(* Day settings and day status on the database: settings are saved for one *)
(* chat and read for every chat.                                           *)
(***************************************************************************)
NextGlobalSettings ==
    \/ Startup
    \/ save_day_settings /\ last_call'.chat_id = QuietChat
    \/ set_day_status
    \/ get_day_settings
    \/ get_current_rate
    \/ is_day_open
SpecGlobalSettings == InitMode("database") /\ [][NextGlobalSettings]_vars

(***************************************************************************)
(* C16.  On the database there is at most one ChatSettings row in every    *)
(* reachable state; after a save_day_settings(A, r, c) that returned True  *)
(* get_day_settings(B) returns rate r and commission c for every chat B,   *)
(* and no other operation changes the rate or the commission of the row.   *)
(***************************************************************************)
C16_OneGlobalSettingsRow ==
    /\ [](Len(db_manager.settings) <= 1)
    /\ [][(last_call'.op = "save_day_settings" /\ last_ret' = TRUE) =>
             \A B \in Chats :
                LET got == DM_get_day_settings(World', B).ret
                IN /\ ~IsNone(got)
                   /\ got.val.rate = last_call'.rate
                   /\ got.val.commission_percent = last_call'.commission_percent]_vars
    /\ [][(last_call'.op # "save_day_settings" /\ db_manager.settings # <<>>) =>
             /\ db_manager'.settings[1].exchange_rate
                    = db_manager.settings[1].exchange_rate
             /\ db_manager'.settings[1].commission_percent
                    = db_manager.settings[1].commission_percent]_vars

\* settings saved for one chat have been read by the other chat
C16_Witness ==
    /\ data_manager.data_source = "database"
    /\ last_call.op = "get_day_settings" /\ last_call.chat_id = BusyChat
    /\ ~IsNone(last_ret)
    /\ last_ret.val.rate = 50 /\ last_ret.val.commission_percent = 10

(***************************************************************************)
(* The writes of the database with fields given as text, some of which do  *)
(* not convert to a number.                                                *)
(***************************************************************************)
TextAddData ==
    {[amount |-> "1 500", method |-> "USDT", commission |-> "10%", rate |-> "100"],
     [amount |-> "1000", method |-> "USDT", commission |-> "ten", rate |-> "100"]}
TextUpdateData ==
    {[amount |-> "2000", commission |-> "5%"],
     [amount |-> "2000", commission |-> "x%"]}
TextRates == {"100"}
TextCommissions == {"10", "abc"}

add_transaction_text ==
    /\ pc = "run" /\ Len(db_manager.transactions) < MaxTx
    /\ \E chat_id \in Chats, data \in TextAddData :
          LET r == DM_add_transaction(World, chat_id, data)
          IN /\ Return([op |-> "add_transaction", chat_id |-> chat_id, data |-> data], r)
             /\ assigned' = IF IsRaise(r.ret) THEN assigned
                            ELSE Append(assigned, r.ret.val)

update_transaction_text ==
    /\ pc = "run"
    /\ \E transaction_id \in TxIds, data \in TextUpdateData :
          /\ Return([op |-> "update_transaction", transaction_id |-> transaction_id,
                     data |-> data],
                    DM_update_transaction(World, transaction_id, data))
          /\ UNCHANGED assigned

save_day_settings_text ==
    /\ pc = "run"
    /\ \E chat_id \in Chats, rate \in TextRates, commission_percent \in TextCommissions :
          /\ Return([op |-> "save_day_settings", chat_id |-> chat_id, rate |-> rate,
                     commission_percent |-> commission_percent],
                    DM_save_day_settings(World, chat_id, rate, commission_percent))
          /\ UNCHANGED assigned

NextTextFields ==
    \/ Startup
    \/ add_transaction_text
    \/ update_transaction_text
    \/ save_day_settings_text
    \/ set_day_status /\ last_call'.chat_id = QuietChat
SpecTextFields == InitMode("database") /\ [][NextTextFields]_vars

\* a field of the call does not convert: the operation fails part-way
CallRaises(call) ==
    CASE call.op \in {"add_transaction", "update_transaction"} ->
             \E k \in NumberKeys \cap DOMAIN call.data :
                 ~Converts(call.data[k], Stripped(k))
      [] call.op = "save_day_settings" ->
             ~Converts(call.rate, "") \/ ~Converts(call.commission_percent, "")
      [] OTHER -> FALSE

\* the caller of the failed call has been told: an exception or False
CallerInformed(call, ret) ==
    IF call.op = "add_transaction" THEN IsRaise(ret) ELSE ret = FALSE

(***************************************************************************)
(* C17.  An add_transaction, update_transaction or update_chat_settings    *)
(* (through save_day_settings) of the database that fails part-way leaves  *)
(* the stored tables exactly as they were before the call, and the caller  *)
(* is informed of the failure.                                             *)
(***************************************************************************)
C17_FailedWriteChangesNothing ==
    [][CallRaises(last_call') =>
          /\ CallerInformed(last_call', last_ret')
          /\ db_manager' = db_manager]_vars

(***************************************************************************)
(* The facade over the database while the connection to the database is    *)
(* lost and restored.                                                      *)
(***************************************************************************)
DatabaseFault ==
    /\ pc = "run"
    /\ db_manager' = [db_manager EXCEPT !.down = ~@]
    /\ UNCHANGED <<now, today, sheets_client, data_manager, pc, last_call,
                   last_ret, last_time, repeated, assigned>>

NextFaults ==
    \/ Startup
    \/ DatabaseFault
    \/ add_transaction /\ last_call'.chat_id = QuietChat
                       /\ last_call'.data = BaseData(1000)
    \/ update_transaction /\ last_call'.data = [k \in {"status"} |-> NOT_PAID]
    \/ mark_transaction_paid /\ last_call'.transaction_hash = "h1"
    \/ save_day_settings /\ last_call'.chat_id = QuietChat /\ last_call'.rate = 100
    \/ set_day_status /\ last_call'.chat_id = QuietChat
    \/ get_transaction
    \/ get_all_transactions /\ last_call'.chat_id = QuietChat
    \/ get_daily_transactions /\ last_call'.chat_id = QuietChat
    \/ get_unpaid_transactions /\ last_call'.chat_id = QuietChat
    \/ get_day_settings /\ last_call'.chat_id = QuietChat
    \/ get_current_rate /\ last_call'.chat_id = QuietChat
    \/ is_day_open /\ last_call'.chat_id = QuietChat
    \/ get_daily_statistics /\ last_call'.chat_id = QuietChat
SpecFaults == InitMode("database") /\ [][NextFaults]_vars

ReadOps ==
    {"get_transaction", "get_all_transactions", "get_daily_transactions",
     "get_unpaid_transactions", "get_day_settings", "get_current_rate",
     "is_day_open", "get_daily_statistics"}
OtherWrites ==
    {"update_transaction", "mark_transaction_paid", "save_day_settings",
     "set_day_status"}

(***************************************************************************)
(* C18.  No read operation of the facade and no write other than           *)
(* add_transaction raises to its caller, whether the backend is reachable  *)
(* or not: a read returns a value (None, False, a list, a record) and a    *)
(* write returns True or False.                                            *)
(***************************************************************************)
C18_FaultNeverReachesCaller ==
    /\ last_call.op \in ReadOps => ~IsRaise(last_ret)
    /\ last_call.op \in OtherWrites => last_ret \in BOOLEAN

(***************************************************************************)
(* Reads and writes of single transactions by id, with ids the store does  *)
(* not hold.                                                               *)
(***************************************************************************)
NextById ==
    \/ Startup
    \/ add_transaction /\ last_call'.chat_id = QuietChat
                       /\ last_call'.data = BaseData(1000)
    \/ update_transaction /\ "id" \in DOMAIN last_call'.data
    \/ mark_transaction_paid /\ last_call'.transaction_hash = "h1"
    \/ get_transaction
SpecById == Init /\ [][NextById]_vars

ByIdOps == {"get_transaction", "update_transaction", "mark_transaction_paid"}

(***************************************************************************)
(* C19.  When the store holds no transaction with the id given,            *)
(* get_transaction returns None, update_transaction and                    *)
(* mark_transaction_paid return False, none of them raises, and the        *)
(* stored transactions are left as they were.                              *)
(***************************************************************************)
C19_MissingIdChangesNothing ==
    [][(/\ last_call'.op \in ByIdOps
        /\ TxIndex(TxStore, last_call'.transaction_id) = 0) =>
          /\ last_ret' = IF last_call'.op = "get_transaction" THEN PyNone ELSE FALSE
          /\ TxStore' = TxStore]_vars

\* a transaction that is not among the stored ones was to be marked paid
C19_Witness ==
    /\ last_call.op = "mark_transaction_paid"
    /\ TxStore # <<>>
    /\ TxIndex(TxStore, last_call.transaction_id) = 0
    /\ last_ret = FALSE

(***************************************************************************)
(* Every operation of the facade on each backend; the database is also     *)
(* selected while the spreadsheet is reachable and holds a row.            *)
(***************************************************************************)
InitBackends ==
    \/ Init
    \/ /\ now = 0 /\ today = 1
       /\ data_manager = DataManager_init(TRUE)
       /\ sheets_client = GoogleSheetsClient_init(<<LegacyRow>>)
       /\ db_manager = DatabaseManager_init
       /\ pc = "import"
       /\ last_call = [op |-> "none"]
       /\ last_ret = PyNone
       /\ last_time = 0
       /\ repeated = FALSE
       /\ assigned = <<>>

\* the cache manager of the spreadsheet client has served few lookups
FewGets ==
    sheets_client.cache_manager.hits + sheets_client.cache_manager.misses < MaxGets - 3

NextBackends ==
    \/ Startup
    \/ add_transaction /\ last_call'.chat_id = QuietChat
                       /\ last_call'.data = BaseData(1000)
    \/ update_transaction /\ last_call'.transaction_id = 1
                          /\ last_call'.data = [k \in {"status"} |-> PAID]
    \/ mark_transaction_paid /\ last_call'.transaction_id = 1
                             /\ last_call'.transaction_hash = "h1"
    \/ save_day_settings /\ last_call'.chat_id = QuietChat /\ last_call'.rate = 100
    \/ set_day_status /\ last_call'.chat_id = QuietChat /\ last_call'.is_open
    \/ FewGets /\ get_transaction /\ last_call'.transaction_id = 1
    \/ FewGets /\ get_all_transactions /\ last_call'.chat_id = QuietChat
                                       /\ IsNone(last_call'.date)
    \/ FewGets /\ get_daily_transactions /\ last_call'.chat_id = QuietChat
    \/ FewGets /\ get_unpaid_transactions /\ last_call'.chat_id = QuietChat
    \/ FewGets /\ get_day_settings /\ last_call'.chat_id = QuietChat
    \/ FewGets /\ get_current_rate /\ last_call'.chat_id = QuietChat
    \/ FewGets /\ is_day_open /\ last_call'.chat_id = QuietChat
    \/ FewGets /\ get_daily_statistics /\ last_call'.chat_id = QuietChat
                                       /\ last_call'.force_refresh
    \/ clear_stats_cache /\ last_call'.chat_id = QuietChat
SpecBackends == InitBackends /\ [][NextBackends]_vars

\* what the spreadsheet client holds, as rows, in memory and in its caches
SheetsData(sc) == [sc EXCEPT !.io = FALSE]

(***************************************************************************)
(* C20.  data_source keeps its initial value in every step, and a facade   *)
(* operation leaves what the backend that is not selected holds as it      *)
(* was: the spreadsheet client when the database is selected, the database *)
(* when the spreadsheet is selected.                                       *)
(***************************************************************************)
C20_OnlySelectedBackend ==
    [][/\ data_manager'.data_source = data_manager.data_source
       /\ pc = "run" =>
             IF data_manager.data_source = "database"
             THEN SheetsData(sheets_client') = SheetsData(sheets_client)
             ELSE db_manager' = db_manager]_vars

\* the database is selected and has stored a transaction while the
\* spreadsheet holds a row of its own
C20_Witness ==
    /\ data_manager.data_source = "database"
    /\ last_call.op = "add_transaction"
    /\ db_manager.transactions # <<>>
    /\ ~sheets_client.dummy_mode /\ sheets_client.sheet # <<>>

(***************************************************************************)
(* Reads of the transactions of a chat while the store holds a transaction *)
(* that another chat added under a historical group label.                 *)
(***************************************************************************)
LabelledData == {DictSet(BaseData(1000), "group", "Test123")}

add_transaction_labelled ==
    /\ pc = "run" /\ Len(assigned) < MaxTx
    /\ \E chat_id \in {BusyChat}, data \in LabelledData :
          LET r == DM_add_transaction(World, chat_id, data)
          IN /\ Return([op |-> "add_transaction", chat_id |-> chat_id, data |-> data], r)
             /\ assigned' = IF IsRaise(r.ret) THEN assigned
                            ELSE Append(assigned, r.ret.val)

NextGroupReads ==
    \/ Startup
    \/ add_transaction_labelled
    \/ get_all_transactions /\ IsNone(last_call'.date)
    \/ get_daily_transactions
    \/ get_unpaid_transactions
    \/ get_daily_statistics
SpecGroupReads == Init /\ [][NextGroupReads]_vars

ListReads ==
    {"get_all_transactions", "get_daily_transactions", "get_unpaid_transactions"}

(***************************************************************************)
(* C21.  A list read of the facade or get_daily_statistics leaves every    *)
(* stored transaction (sheet row, in-memory record, table row) as it was:  *)
(* the chat identifier rewritten after a match by group label is not       *)
(* written to the store.                                                   *)
(***************************************************************************)
C21_ReadsKeepStoredChatId ==
    [][last_call'.op \in ListReads \cup {"get_daily_statistics"} =>
          TxStore' = TxStore]_vars

(***************************************************************************)
(* List reads after the migration of a worksheet that held a row written   *)
(* under a historical group label, without a chat identifier.              *)
(***************************************************************************)
NextMigrated ==
    \/ Tick
    \/ Startup
    \/ get_all_transactions
    \/ get_daily_transactions
    \/ get_unpaid_transactions
SpecMigrated == (\E mode \in {"live", "dummy"} : InitMode(mode)) /\ [][NextMigrated]_vars

\* the same row, stored with the chat identifier from the start
NativeRow == [LegacyRow EXCEPT !.chat_id = Test123Chat]
NativeWorld ==
    [dm |-> DataManager_init(FALSE), sc |-> GoogleSheetsClient_init(<<NativeRow>>),
     db |-> DatabaseManager_init]

ListReadOf(w, call) ==
    CASE call.op = "get_all_transactions" ->
            DM_get_all_transactions(w, call.chat_id, call.date).ret
      [] call.op = "get_daily_transactions" ->
            DM_get_daily_transactions(w, call.chat_id).ret
      [] call.op = "get_unpaid_transactions" ->
            DM_get_unpaid_transactions(w, call.chat_id).ret

(***************************************************************************)
(* C22.  After the migration has run over a worksheet whose row bears the  *)
(* historical label "Test123" and no chat identifier, every list read of   *)
(* the facade for the mapped chat returns what it returns over a worksheet *)
(* whose row was stored with that chat identifier from the start.          *)
(***************************************************************************)
C22_MigratedReadsAsNative ==
    [][(/\ pc = "run" /\ now' = now
        /\ sheets_client.sheet # <<>>
        /\ last_call'.op \in ListReads
        /\ last_call'.chat_id = Test123Chat)
       => last_ret' = ListReadOf(NativeWorld, last_call')]_vars

(***************************************************************************)
(* The migration over worksheets whose rows bear historical labels, other  *)
(* labels, chat identifiers or none, and identifiers that are not numbers; *)
(* it runs at import and may be run again.                                 *)
(***************************************************************************)
MigrationGroups == {"Test123", "Test123 old", "Other"}
\* the identifier of a private chat is positive
PrivateChat == "7"
MigrationRows(ids) ==
    {[LegacyRow EXCEPT !.id = i, !.group = g, !.chat_id = c] :
        i \in ids, g \in MigrationGroups, c \in {"", BusyChat, PrivateChat}}
MigrationSheets ==
    {<<>>} \cup {<<r>> : r \in MigrationRows({"1", "x"})}
           \cup {<<r1, r2>> : r1 \in MigrationRows({"1", "x"}), r2 \in MigrationRows({"2"})}

InitMigration ==
    /\ now = 0 /\ today = 1
    /\ data_manager = DataManager_init(FALSE)
    /\ sheets_client \in {GoogleSheetsClient_init(rows) : rows \in MigrationSheets}
                         \cup {initialize_dummy_mode}
    /\ db_manager = DatabaseManager_init
    /\ pc = "import"
    /\ last_call = [op |-> "none"]
    /\ last_ret = PyNone
    /\ last_time = 0
    /\ repeated = FALSE
    /\ assigned = <<>>

\* a call of migrate_transaction_data after the import
migrate_again ==
    /\ pc = "run" /\ GetsOk
    /\ LET r == migrate_transaction_data(World.sc)
       IN /\ sheets_client' = r.st
          /\ last_call' = [op |-> "migrate_transaction_data"]
          /\ last_ret' = Py(r.ret)
          /\ last_time' = now
          /\ repeated' = (last_call.op = "migrate_transaction_data")
    /\ UNCHANGED <<now, today, db_manager, data_manager, pc, assigned>>

NextMigration ==
    \/ Tick
    \/ Startup
    \/ migrate_again
SpecMigration == InitMigration /\ [][NextMigration]_vars

SheetTxs == IF sheets_client.dummy_mode THEN sheets_client.daily_transactions
            ELSE sheets_client.sheet
ButChatId(t) == [k \in DOMAIN t \ {"chat_id"} |-> t[k]]

(***************************************************************************)
(* C23.  A run of migrate_transaction_data adds and removes no transaction *)
(* and leaves every field of every transaction but the chat identifier     *)
(* (id, date/time, amount, method, commission, rate, status, group label,  *)
(* hash) as it was.                                                        *)
(***************************************************************************)
C23_MigrationChangesOnlyChatId ==
    [][last_call'.op = "migrate_transaction_data" =>
          /\ Len(SheetTxs') = Len(SheetTxs)
          /\ \A i \in 1..Len(SheetTxs) : ButChatId(SheetTxs'[i]) = ButChatId(SheetTxs[i])]_vars

C23_Witness ==
    /\ last_call.op = "migrate_transaction_data"
    /\ Len(sheets_client.sheet) = 2
    /\ sheets_client.sheet[1].group = "Test123 old"
    /\ sheets_client.sheet[1].chat_id = Test123Chat
    /\ sheets_client.sheet[2].chat_id = ""

(***************************************************************************)
(* C24.  A run of migrate_transaction_data made after the run at import    *)
(* has completed rewrites no record: it returns 0 and leaves the store as  *)
(* it found it, at whatever moment it is made.                             *)
(***************************************************************************)
C24_SecondRunRewritesNothing ==
    [][(pc = "run" /\ now' = now /\ last_call'.op = "migrate_transaction_data") =>
          /\ last_ret' = Py(0)
          /\ SheetTxs' = SheetTxs]_vars

\* the number of update_transaction calls of a run that return True
RECURSIVE RewrittenLoop(_, _, _)
RewrittenLoop(st, txs, rewritten) ==
    IF txs = <<>> THEN rewritten
    ELSE LET tx == Head(txs)
             chat_id == Get(tx, "chat_id", "")
             new_chat_id == MappedChat(Get(tx, "group", ""))
             u == Sheets_update_transaction(st, tx.id, [k \in {"chat_id"} |-> new_chat_id])
         IN IF (chat_id # "" /\ StartsWith(chat_id, "-")) \/ new_chat_id = ""
            THEN RewrittenLoop(st, Tail(txs), rewritten)
            ELSE RewrittenLoop(u.st, Tail(txs), IF u.ret THEN rewritten + 1 ELSE rewritten)

RewrittenBy(st) ==
    LET r == Sheets_get_all_transactions(st, PyNone, TRUE, TRUE)
    IN RewrittenLoop(r.st, r.ret.list, 0)

(***************************************************************************)
(* C25.  The number a run of migrate_transaction_data returns is the       *)
(* number of records whose chat identifier the run rewrote with success:   *)
(* a record whose update_transaction call returned False is not counted.   *)
(***************************************************************************)
C25_CountsOnlyRewrittenRecords ==
    [][(now' = now /\ last_call'.op = "migrate_transaction_data") =>
          last_ret' = Py(RewrittenBy(World.sc))]_vars

(***************************************************************************)
(* The cache manager on its own: get, set, invalidate and                  *)
(* invalidate_pattern called on the cache manager of the client, over a    *)
(* few keys, while the clock advances.                                     *)
(***************************************************************************)
MaxInvalidations == 2
CacheKeys == {"get_transaction:1", "is_day_open:1"}
CacheValues == {Py(1), Py(2)}
CachePatterns == {"get_transaction", ":1", "rate"}

cache_manager == sheets_client.cache_manager
Age(cm, key) == IF key \in DOMAIN cm.cache THEN Py(now - cm.cache[key].timestamp)
                ELSE PyNone

\* a call on the cache manager: cm is the cache manager after it
CacheCall(call, cm, ret) ==
    /\ sheets_client' = [sheets_client EXCEPT !.cache_manager = cm]
    /\ last_call' = call
    /\ last_ret' = ret
    /\ UNCHANGED <<now, today, db_manager, data_manager, pc, last_time, repeated,
                   assigned>>

cache_get ==
    /\ cache_manager.hits + cache_manager.misses < MaxGets - 3
    /\ \E key \in CacheKeys :
          LET g == CacheManager_get(cache_manager, key)
          IN CacheCall([op |-> "CacheManager.get", key |-> key,
                        age |-> Age(cache_manager, key)],
                       g.cm, [value |-> g.value, exists |-> g.exists])

cache_set ==
    /\ \E key \in CacheKeys, value \in CacheValues :
          CacheCall([op |-> "CacheManager.set", key |-> key, value |-> value],
                    CacheManager_set(cache_manager, key, value), PyNone)

cache_invalidate ==
    /\ cache_manager.invalidations < MaxInvalidations
    /\ \/ \E key \in CacheKeys :
             CacheCall([op |-> "CacheManager.invalidate", key |-> Py(key),
                        held |-> DOMAIN cache_manager.cache],
                       CacheManager_invalidate(cache_manager, key), PyNone)
       \/ CacheCall([op |-> "CacheManager.invalidate", key |-> PyNone,
                     held |-> DOMAIN cache_manager.cache],
                    CacheManager_invalidate_all(cache_manager), PyNone)

cache_invalidate_pattern ==
    /\ cache_manager.invalidations < MaxInvalidations
    /\ \E pattern \in CachePatterns :
          CacheCall([op |-> "CacheManager.invalidate_pattern", pattern |-> pattern,
                     held |-> DOMAIN cache_manager.cache],
                    CacheManager_invalidate_pattern(cache_manager, pattern), PyNone)

NextCacheManager ==
    \/ Tick /\ today' = today
    \/ cache_get
    \/ cache_set
    \/ cache_invalidate
    \/ cache_invalidate_pattern
InitCacheManager ==
    /\ now = 0 /\ today = 1
    /\ data_manager = DataManager_init(FALSE)
    /\ sheets_client = GoogleSheetsClient_init(<<>>)
    /\ db_manager = DatabaseManager_init
    /\ pc = "import"
    /\ last_call = [op |-> "none"]
    /\ last_ret = PyNone
    /\ last_time = 0
    /\ repeated = FALSE
    /\ assigned = <<>>
SpecCacheManager == InitCacheManager /\ [][NextCacheManager]_vars

Expired(cm, key) ==
    key \in DOMAIN cm.cache /\ now - cm.cache[key].timestamp >= CACHE_DURATION

\* the call made by this step removes key explicitly
Invalidates(call, key) ==
    \/ call.op = "CacheManager.invalidate" /\ (IsNone(call.key) \/ call.key = Py(key))
    \/ call.op = "CacheManager.invalidate_pattern" /\ Contains(call.pattern, key)

(***************************************************************************)
(* C26.  get(key) reports found only for an entry younger than             *)
(* CACHE_DURATION, and then with the value of that entry; a get on an      *)
(* entry of age CACHE_DURATION or more reports a miss and removes the      *)
(* entry; and an expired entry leaves the cache only by a get on its key   *)
(* or by an invalidation that names it.                                    *)
(***************************************************************************)
C26_GetHonoursTtl ==
    [][/\ (now' = now /\ last_call'.op = "CacheManager.get") =>
            LET key == last_call'.key
            IN /\ last_ret'.exists =>
                     /\ key \in DOMAIN cache_manager.cache
                     /\ now - cache_manager.cache[key].timestamp < CACHE_DURATION
                     /\ last_ret'.value = cache_manager.cache[key].value
               /\ Expired(cache_manager, key) =>
                     /\ ~last_ret'.exists
                     /\ key \notin DOMAIN cache_manager'.cache
       /\ \A key \in DOMAIN cache_manager.cache :
             (Expired(cache_manager, key) /\ key \notin DOMAIN cache_manager'.cache) =>
                 /\ now' = now
                 /\ \/ last_call'.op = "CacheManager.get" /\ last_call'.key = key
                    \/ Invalidates(last_call', key)]_vars

C26_Witness ==
    /\ last_call.op = "CacheManager.get"
    /\ last_call.age = Py(CACHE_DURATION)
    /\ ~last_ret.exists
    /\ last_call.key \notin DOMAIN cache_manager.cache
    /\ \E key \in DOMAIN cache_manager.cache : Expired(cache_manager, key)

(***************************************************************************)
(* C27.  invalidate(None) leaves the cache empty; invalidate(k) removes    *)
(* key k and no other; invalidate_pattern(p) removes the keys of which p   *)
(* is a substring and no other; each key that stays keeps its value and    *)
(* its creation timestamp.                                                 *)
(***************************************************************************)
C27_InvalidationRemovesExactly ==
    [][LET call == last_call'
           old == cache_manager.cache
           new == cache_manager'.cache
           Kept(keys) == /\ DOMAIN new = keys
                         /\ \A k \in keys : new[k] = old[k]
       IN /\ (now' = now /\ call.op = "CacheManager.invalidate") =>
                IF IsNone(call.key) THEN DOMAIN new = {}
                ELSE Kept(DOMAIN old \ {call.key.val})
          /\ (now' = now /\ call.op = "CacheManager.invalidate_pattern") =>
                Kept({k \in DOMAIN old : ~Contains(call.pattern, k)})]_vars

C27_Witness ==
    /\ last_call.op = "CacheManager.invalidate_pattern"
    /\ last_call.pattern = ":1"
    /\ last_call.held = CacheKeys
    /\ cache_manager.cache = EmptyDict

(***************************************************************************)
(* C28.  The read-through wrapper stores no result that is None or an      *)
(* empty list: no entry of the cache holds such a value, so a read that    *)
(* returned one is executed again by the next identical call.              *)
(***************************************************************************)
C28_NoEmptyResultCached ==
    \A key \in DOMAIN sheets_client.cache_manager.cache :
        LET value == sheets_client.cache_manager.cache[key].value
        IN /\ ~IsNone(value)
           /\ "list" \in DOMAIN value => value.list # <<>>

(***************************************************************************)
(* Every operation of the facade over a client whose construction ended in *)
(* _initialize_dummy_mode.                                                 *)
(***************************************************************************)
NextOffline ==
    \/ Startup
    \/ add_transaction /\ last_call'.chat_id = QuietChat
                       /\ "hash" \notin DOMAIN last_call'.data
                       /\ assigned = <<>>
    \/ update_transaction /\ last_call'.data = [k \in {"status"} |-> PAID]
                          /\ last_call'.transaction_id = 2
    \/ mark_transaction_paid /\ last_call'.transaction_id = 1
                             /\ last_call'.transaction_hash = "h1"
    \/ get_transaction /\ last_call'.transaction_id = 2
    \/ get_all_transactions /\ last_call'.chat_id = QuietChat
                            /\ IsNone(last_call'.date)
    \/ get_daily_transactions /\ last_call'.chat_id = QuietChat
    \/ get_unpaid_transactions /\ last_call'.chat_id = QuietChat
    \/ save_day_settings /\ last_call'.chat_id = QuietChat /\ last_call'.rate = 100
    \/ get_day_settings /\ last_call'.chat_id = QuietChat
    \/ get_current_rate /\ last_call'.chat_id = QuietChat
    \/ is_day_open /\ last_call'.chat_id = QuietChat
    \/ set_day_status /\ last_call'.chat_id = QuietChat
    \/ get_daily_statistics /\ last_call'.chat_id = QuietChat
                            /\ ~last_call'.force_refresh
    \/ clear_stats_cache /\ last_call'.chat_id = QuietChat
SpecOffline == InitMode("dummy") /\ [][NextOffline]_vars

(***************************************************************************)
(* C29.  A client constructed in offline mode holds exactly the sample     *)
(* transaction, and from then on dummy_mode stays true and no operation    *)
(* reads or writes the remote spreadsheet.                                 *)
(***************************************************************************)
C29_OfflineIsPermanent ==
    /\ [](pc = "import" => /\ sheets_client.dummy_mode
                           /\ sheets_client.daily_transactions = <<SampleTransaction>>)
    /\ [][sheets_client.dummy_mode =>
             sheets_client'.dummy_mode /\ ~sheets_client'.io]_vars

C29_Witness ==
    /\ sheets_client.dummy_mode
    /\ last_call.op = "update_transaction"
    /\ last_ret = TRUE
    /\ Len(sheets_client.daily_transactions) = 2

(***************************************************************************)
(* Concurrent calls on the cache manager, one statement at a time and      *)
(* without locks.  Here pc maps each thread to its position: the call it   *)
(* is in (op, key, value), the statement it is at, the timestamp and the   *)
(* value it has read, the calls it has made and what its call returned     *)
(* (PyRaise: the call raised KeyError; age: the age get found the entry    *)
(* to have).                                                               *)
(***************************************************************************)
MaxCalls == 2
Threads == {1, 2}
SharedKey == "get_transaction:1"
Idle == [op |-> "none", at |-> "idle", key |-> PyNone, value |-> PyNone,
         timestamp |-> 0, calls |-> 0, ret |-> PyNone]

InitThreads ==
    /\ now = 0 /\ today = 1
    /\ data_manager = DataManager_init(FALSE)
    /\ sheets_client = GoogleSheetsClient_init(<<>>)
    /\ db_manager = DatabaseManager_init
    /\ pc = [t \in Threads |-> Idle]
    /\ last_call = [op |-> "none"]
    /\ last_ret = PyNone
    /\ last_time = 0
    /\ repeated = FALSE
    /\ assigned = <<>>

\* one statement of get(key) by a thread at p
get_statement_of(cm, p) ==
    LET key == p.key.val
    IN CASE p.at = "last_access_time" ->
              [cm |-> [cm EXCEPT !.last_access_time = DictSet(@, key, now)],
               p |-> [p EXCEPT !.at = "if_key_in_cache"]]
         [] p.at = "if_key_in_cache" ->
              [cm |-> cm,
               p |-> [p EXCEPT !.at = IF key \in DOMAIN cm.cache THEN "read_entry"
                                      ELSE "misses"]]
         [] p.at = "read_entry" ->
              IF key \in DOMAIN cm.cache
              THEN [cm |-> cm,
                    p |-> [p EXCEPT !.at = "if_valid",
                                    !.timestamp = cm.cache[key].timestamp,
                                    !.value = cm.cache[key].value]]
              ELSE [cm |-> cm, p |-> [p EXCEPT !.at = "done", !.ret = PyRaise]]
         [] p.at = "if_valid" ->
              IF now - p.timestamp < CACHE_DURATION
              THEN [cm |-> [cm EXCEPT !.hits = @ + 1],
                    p |-> [p EXCEPT !.at = "done",
                                    !.ret = [value |-> p.value, exists |-> TRUE,
                                             age |-> now - p.timestamp]]]
              ELSE [cm |-> cm, p |-> [p EXCEPT !.at = "del_entry"]]
         [] p.at = "del_entry" ->
              IF key \in DOMAIN cm.cache
              THEN [cm |-> [cm EXCEPT !.cache = DictDel(@, key)],
                    p |-> [p EXCEPT !.at = "invalidations"]]
              ELSE [cm |-> cm, p |-> [p EXCEPT !.at = "done", !.ret = PyRaise]]
         [] p.at = "invalidations" ->
              [cm |-> [cm EXCEPT !.invalidations = @ + 1],
               p |-> [p EXCEPT !.at = "misses"]]
         [] p.at = "misses" ->
              [cm |-> [cm EXCEPT !.misses = @ + 1],
               p |-> [p EXCEPT !.at = "done",
                               !.ret = [value |-> PyNone, exists |-> FALSE,
                                        age |-> 0]]]

\* one statement of invalidate(key) by a thread at p
invalidate_statement_of(cm, p) ==
    CASE p.at = "if_key_is_none" ->
           IF IsNone(p.key)
           THEN [cm |-> cm, p |-> [p EXCEPT !.at = "clear",
                                            !.value = Py(Cardinality(DOMAIN cm.cache))]]
           ELSE [cm |-> cm,
                 p |-> IF p.key.val \in DOMAIN cm.cache
                       THEN [p EXCEPT !.at = "del_entry"]
                       ELSE [p EXCEPT !.at = "done", !.ret = Py(TRUE)]]
      [] p.at = "clear" ->
           [cm |-> [cm EXCEPT !.cache = EmptyDict], p |-> [p EXCEPT !.at = "invalidations"]]
      [] p.at = "del_entry" ->
           IF p.key.val \in DOMAIN cm.cache
           THEN [cm |-> [cm EXCEPT !.cache = DictDel(@, p.key.val)],
                 p |-> [p EXCEPT !.at = "invalidations", !.value = Py(1)]]
           ELSE [cm |-> cm, p |-> [p EXCEPT !.at = "done", !.ret = PyRaise]]
      [] p.at = "invalidations" ->
           [cm |-> [cm EXCEPT !.invalidations = @ + p.value.val],
            p |-> [p EXCEPT !.at = "done", !.ret = Py(TRUE)]]

Statement(t, r) ==
    /\ sheets_client' = [sheets_client EXCEPT !.cache_manager = r.cm]
    /\ pc' = [pc EXCEPT ![t] = r.p]
    /\ UNCHANGED <<now, today, db_manager, data_manager, last_call, last_ret,
                   last_time, repeated, assigned>>

\* a thread that is in no call and has not failed enters a call
thread_call ==
    /\ \E t \in Threads :
          /\ pc[t].at \in {"idle", "done"} /\ ~IsRaise(pc[t].ret)
          /\ pc[t].calls < MaxCalls
          /\ \E call \in {[op |-> "get", at |-> "last_access_time", key |-> Py(SharedKey),
                           value |-> PyNone]}
                         \cup {[op |-> "set", at |-> "store", key |-> Py(SharedKey),
                                value |-> v] : v \in CacheValues}
                         \cup {[op |-> "invalidate", at |-> "if_key_is_none", key |-> k,
                                value |-> PyNone] : k \in {PyNone, Py(SharedKey)}} :
                pc' = [pc EXCEPT ![t] = [op |-> call.op, at |-> call.at, key |-> call.key,
                                         value |-> call.value, timestamp |-> 0,
                                         calls |-> pc[t].calls + 1, ret |-> PyNone]]
    /\ UNCHANGED <<now, today, sheets_client, db_manager, data_manager, last_call,
                   last_ret, last_time, repeated, assigned>>

get_statement ==
    /\ \E t \in Threads :
          /\ pc[t].op = "get" /\ pc[t].at # "done"
          /\ Statement(t, get_statement_of(cache_manager, pc[t]))

set_statement ==
    /\ \E t \in Threads :
          /\ pc[t].op = "set" /\ pc[t].at # "done"
          /\ Statement(t, [cm |-> CacheManager_set(cache_manager, pc[t].key.val,
                                                   pc[t].value),
                           p |-> [pc[t] EXCEPT !.at = "done", !.ret = Py(TRUE)]])

invalidate_statement ==
    /\ \E t \in Threads :
          /\ pc[t].op = "invalidate" /\ pc[t].at # "done"
          /\ Statement(t, invalidate_statement_of(cache_manager, pc[t]))

NextThreads ==
    \/ Tick /\ today' = today
    \/ thread_call
    \/ get_statement
    \/ set_statement
    \/ invalidate_statement
SpecThreads == InitThreads /\ [][NextThreads]_vars

(***************************************************************************)
(* C30.  Whatever the interleaving of the statements of concurrent get,    *)
(* set and invalidate calls on one key, no call raises, and a get that     *)
(* reports found returns a value that was stored for the key less than     *)
(* CACHE_DURATION before the get tested its age.                           *)
(***************************************************************************)
C30_NoCallRaises ==
    \A t \in Threads :
        /\ ~IsRaise(pc[t].ret)
        /\ (pc[t].op = "get" /\ pc[t].at = "done" /\ pc[t].ret.exists) =>
              /\ pc[t].ret.value \in CacheValues
              /\ pc[t].ret.age < CACHE_DURATION

(***************************************************************************)
(* Two concurrent add_transaction calls on the live worksheet, one         *)
(* statement at a time.  Here pc maps each thread to its position in       *)
(* add_transaction: the data it was called with, the statement it is at,   *)
(* the id it computed, the number of rows the id column had when it read   *)
(* it (seen), the index of the row it appended (row) and what it returned. *)
(***************************************************************************)
NotAdding == [op |-> "add_transaction", at |-> "idle", data |-> EmptyDict, new_id |-> 0,
              seen |-> 0, row |-> 0, ret |-> PyNone]

InitAdders ==
    /\ now = 0 /\ today = 1
    /\ data_manager = DataManager_init(FALSE)
    /\ sheets_client \in {GoogleSheetsClient_init(rows) : rows \in InitialSheets}
    /\ db_manager = DatabaseManager_init
    /\ pc = [t \in Threads |-> NotAdding]
    /\ last_call = [op |-> "none"]
    /\ last_ret = PyNone
    /\ last_time = 0
    /\ repeated = FALSE
    /\ assigned = <<>>

\* all_ids = self.sheet.col_values(1)[1:] and the id computed from it
col_values_of(st, p) ==
    LET all_ids == {i \in 1..Len(st.sheet) : st.sheet[i].id # ""}
        digit_ids == {ParseDigits(st.sheet[i].id) :
                         i \in {j \in all_ids : IsDigit(st.sheet[j].id)}}
    IN [st |-> st,
        p |-> [p EXCEPT !.at = "append_row",
                        !.new_id = IF all_ids # {} THEN MaxOf(digit_ids) + 1 ELSE 1,
                        !.seen = Len(st.sheet)]]

\* a variant that appends under the worksheet's lock and takes the id then
append_row_of_locked(st, p) ==
    LET q == col_values_of(st, p).p
        row == [id |-> CellText("id", q.new_id),
                datetime |-> current_datetime,
                amount |-> CellText("amount", p.data["amount"]),
                method |-> p.data["method"],
                commission |-> CellText("commission", p.data["commission"]),
                rate |-> CellText("rate", p.data["rate"]),
                status |-> NOT_PAID,
                group |-> Get(p.data, "group", ""),
                hash |-> "",
                chat_id |-> Get(p.data, "chat_id", "")]
    IN [st |-> [st EXCEPT !.sheet = Append(@, row)],
        p |-> [p EXCEPT !.at = "invalidate_transaction_cache", !.new_id = q.new_id,
                        !.row = Len(st.sheet) + 1]]

\* self.sheet.append_row(row)
append_row_of(st, p) ==
    LET row == [id |-> CellText("id", p.new_id),
                datetime |-> current_datetime,
                amount |-> CellText("amount", p.data["amount"]),
                method |-> p.data["method"],
                commission |-> CellText("commission", p.data["commission"]),
                rate |-> CellText("rate", p.data["rate"]),
                status |-> NOT_PAID,
                group |-> Get(p.data, "group", ""),
                hash |-> "",
                chat_id |-> Get(p.data, "chat_id", "")]
    IN [st |-> [st EXCEPT !.sheet = Append(@, row)],
        p |-> [p EXCEPT !.at = "invalidate_transaction_cache",
                        !.row = Len(st.sheet) + 1]]

AdderStep(t, r) ==
    /\ sheets_client' = r.st
    /\ pc' = [pc EXCEPT ![t] = r.p]
    /\ UNCHANGED <<now, today, db_manager, data_manager, last_call, last_ret,
                   last_time, repeated, assigned>>

\* the facade passes the data with the chat identifier and the group label
add_call ==
    /\ \E t \in Threads, chat_id \in Chats, data \in AddData :
          /\ pc[t].at = "idle"
          /\ pc' = [pc EXCEPT ![t] =
                       [NotAdding EXCEPT
                           !.at = "col_values",
                           !.data = DictSet(DictSet(data, "chat_id", chat_id),
                                            "group", chat_id)]]
    /\ UNCHANGED <<now, today, sheets_client, db_manager, data_manager, last_call,
                   last_ret, last_time, repeated, assigned>>

add_col_values ==
    /\ \E t \in Threads :
          /\ pc[t].at = "col_values"
          /\ AdderStep(t, col_values_of(sheets_client, pc[t]))

add_append_row ==
    /\ \E t \in Threads :
          /\ pc[t].at = "append_row"
          /\ AdderStep(t, append_row_of(sheets_client, pc[t]))

add_return ==
    /\ \E t \in Threads :
          /\ pc[t].at = "invalidate_transaction_cache"
          /\ AdderStep(t, [st |-> [sheets_client EXCEPT !.cache_manager =
                                      CacheManager_invalidate_transaction_cache(@, PyNone)],
                           p |-> [pc[t] EXCEPT !.at = "done", !.ret = Py(pc[t].new_id)]])

NextAdders ==
    \/ Tick /\ today' = today
    \/ add_call
    \/ add_col_values
    \/ add_append_row
    \/ add_return
SpecAdders == InitAdders /\ [][NextAdders]_vars

\* both calls read the id column before either appended its row
Interleaved(p1, p2) == p1.seen < p2.row /\ p2.seen < p1.row

NextRate ==
    \/ Tick /\ today' = today
    \/ Startup
    \/ save_day_settings /\ last_call'.chat_id = QuietChat
    \/ get_current_rate /\ last_call'.chat_id = QuietChat
    \/ get_day_settings /\ last_call'.chat_id = QuietChat
    \/ get_daily_statistics /\ last_call'.chat_id = QuietChat
                            /\ ~last_call'.force_refresh
SpecRate == InitCacheManager /\ [][NextRate]_vars

(***************************************************************************)
(* C32.  On the live worksheets, the get_current_rate(C) that follows a    *)
(* save_day_settings(r, c, C) which returned True, with r > 0, returns r,  *)
(* whatever was read for C before the save.                                *)
(***************************************************************************)
C32_RateAfterSaveIsSaved ==
    [][(/\ last_call.op = "save_day_settings" /\ last_ret = TRUE
        /\ last_call.rate > 0
        /\ last_call'.op = "get_current_rate"
        /\ last_call'.chat_id = last_call.chat_id)
       => last_ret' = Py(last_call.rate)]_vars

\* the fields that identify a stored transaction: id, creation time, group
TxFixed(t) ==
    [k \in DOMAIN t \cap {"id", "datetime", "group", "created_day", "created_time"} |->
        t[k]]

(***************************************************************************)
(* C33.  update_transaction(id, data) leaves the id, the creation          *)
(* date/time and the group label of every stored transaction as they       *)
(* were, and leaves every transaction but the one with the id unchanged,   *)
(* for any data and on every store.                                        *)
(***************************************************************************)
C33_UpdateKeepsIdentity ==
    [][last_call'.op = "update_transaction" =>
          /\ Len(TxStore') = Len(TxStore)
          /\ \A i \in 1..Len(TxStore) :
                /\ TxFixed(TxStore'[i]) = TxFixed(TxStore[i])
                /\ i # TxIndex(TxStore, last_call'.transaction_id) =>
                      TxStore'[i] = TxStore[i]]_vars

\* the text of a signed integer
IsSignedInt(s) ==
    IF StartsWith(s, "-") THEN Len(s) > 1 /\ IsDigit(SubSeq(s, 2, Len(s)))
    ELSE s # "" /\ IsDigit(s)

(***************************************************************************)
(* C34.  A transaction whose chat-identifier field holds a signed integer, *)
(* negative or positive, has the same chat identifier after a run of       *)
(* migrate_transaction_data, whatever its group label.                     *)
(***************************************************************************)
C34_MigrationKeepsChatIds ==
    [][last_call'.op = "migrate_transaction_data" =>
          \A i \in 1..Len(SheetTxs) :
              IsSignedInt(Get(SheetTxs[i], "chat_id", "")) =>
                  Get(SheetTxs'[i], "chat_id", "") = Get(SheetTxs[i], "chat_id", "")]_vars

(***************************************************************************)
(* C35.  A successful save_day_settings leaves the answer of is_day_open   *)
(* as it was: for every chat, is_day_open asked right after the save       *)
(* returns what is_day_open asked right before it returns.                 *)
(***************************************************************************)
C35_SaveKeepsDayStatus ==
    [][(last_call'.op = "save_day_settings" /\ last_ret' = TRUE) =>
          \A chat_id \in Chats :
              DM_is_day_open(World', chat_id).ret = DM_is_day_open(World, chat_id).ret]_vars

(***************************************************************************)
(* Transactions added on one day or the next, listed by chat and date.     *)
(***************************************************************************)
NextByDate ==
    \/ Tick
    \/ Startup
    \/ add_transaction /\ last_call'.data = BaseData(1000)
    \/ get_all_transactions
SpecByDate == Init /\ [][NextByDate]_vars

\* the ids of the stored transactions of the chat created on day d
IdsOfChatOn(chat_id, d) ==
    {StoredNumber(TxStore[i].id) : i \in
        {j \in 1..Len(TxStore) :
            /\ Get(TxStore[j], "chat_id", "") = chat_id
            /\ IF data_manager.data_source = "database"
               THEN TxStore[j].created_day = d
               ELSE StartsWith(TxStore[j].datetime, DateStr(d))}}

(***************************************************************************)
(* C36.  get_all_transactions(C, date=D) of the facade returns exactly the *)
(* stored transactions of chat C created on date D, and those created on   *)
(* the current day when no date is given.                                  *)
(***************************************************************************)
C36_ListIsChatAndDate ==
    (last_call.op = "get_all_transactions" /\ IsList(last_ret)) =>
        {last_ret.list[i].id : i \in 1..Len(last_ret.list)} =
            IdsOfChatOn(last_call.chat_id,
                        IF IsNone(last_call.date) THEN today ELSE last_call.date.val)

\* every commission a stored transaction bears is between 0 and 100 percent;
\* the commissions of the day settings are drawn from Commissions
CommissionsInRange ==
    /\ \A i \in 1..Len(TxStore) : StoredNumber(TxStore[i].commission) \in 0..100
    /\ \A c \in Commissions : c \in 0..100

Removed == (DOMAIN cache_manager.cache) \ (DOMAIN cache_manager'.cache)
\* the keys a step adds to the cache
Added == (DOMAIN cache_manager'.cache) \ (DOMAIN cache_manager.cache)

(***************************************************************************)
(* C38.  The counters of the cache manager follow its calls: starting from *)
(* zero, hits + misses grows by one with every get and with nothing else,  *)
(* invalidations grows with every call by the number of entries the call   *)
(* removes (an expired entry in get, the entry of invalidate(key), every   *)
(* entry in invalidate(None), the matching entries in invalidate_pattern), *)
(* and the size grows by one when set stores a key the cache does not      *)
(* hold and shrinks by the entries removed.                                *)
(***************************************************************************)
C38_CountersFollowCalls ==
    /\ (last_call.op = "none" =>
           /\ cache_manager.hits + cache_manager.misses = 0
           /\ cache_manager.invalidations = 0
           /\ cache_manager.cache = EmptyDict)
    /\ [][IF now' # now THEN cache_manager' = cache_manager
          ELSE /\ cache_manager'.hits + cache_manager'.misses =
                      cache_manager.hits + cache_manager.misses
                          + (IF last_call'.op = "CacheManager.get" THEN 1 ELSE 0)
               /\ cache_manager'.invalidations =
                      cache_manager.invalidations + Cardinality(Removed)
               /\ Added = IF last_call'.op = "CacheManager.set"
                          THEN {last_call'.key} \ DOMAIN cache_manager.cache
                          ELSE {}
               /\ (last_call'.op = "CacheManager.set" => Removed = {})]_vars

\* a get has found an entry expired and removed it, after a hit
C38_Witness ==
    /\ last_call.op = "CacheManager.get"
    /\ cache_manager.hits > 0
    /\ cache_manager.misses > 0
    /\ cache_manager.invalidations > 0
    /\ cache_manager.cache # EmptyDict

(***************************************************************************)
(* main.py: the supervisor of the bot process.  Here pc holds the state of *)
(* the module and of its threads: bot_process (0 for None, else the child  *)
(* the Popen handle refers to), bot_thread (the monitor thread was         *)
(* started), running (the children that have not exited), started (the     *)
(* number of children started), observed (for each start, the handle whose *)
(* test led to it), and the statement the request thread and the monitor   *)
(* thread are at.  Requests are served one after another; the monitor      *)
(* thread runs beside them.                                                *)
(***************************************************************************)
MaxStarts == 3
MaxRequests == 3

bot_process == pc.bot_process
bot_thread == pc.bot_thread

InitSupervisor ==
    /\ now = 0 /\ today = 1
    /\ data_manager = DataManager_init(FALSE)
    /\ sheets_client = GoogleSheetsClient_init(<<>>)
    /\ db_manager = DatabaseManager_init
    /\ pc = [bot_process |-> 0, bot_thread |-> FALSE, running |-> {}, started |-> 0,
             observed |-> <<>>,
             request |-> [at |-> "idle", seen |-> 0, calls |-> 0],
             monitor |-> [at |-> "off", seen |-> 0]]
    /\ last_call = [op |-> "none"]
    /\ last_ret = PyNone
    /\ last_time = 0
    /\ repeated = FALSE
    /\ assigned = <<>>

\* bot_process.poll() is not None
Exited(s) == s.bot_process \notin s.running

\* Popen and the assignment of the handle
start_bot_process(s, seen) ==
    [s EXCEPT !.bot_process = s.started + 1,
              !.running = @ \cup {s.started + 1},
              !.started = @ + 1,
              !.observed = Append(@, seen)]

\* one statement of app(environ, start_response)
app_of(s) ==
    LET p == s.request
    IN CASE p.at = "idle" ->
              [s EXCEPT !.request = [at |-> "if_not_running", seen |-> 0,
                                     calls |-> p.calls + 1]]
         [] p.at = "if_not_running" ->
              IF s.bot_process = 0 \/ Exited(s)
              THEN [s EXCEPT !.request.at = "start_bot_process",
                             !.request.seen = s.bot_process]
              ELSE [s EXCEPT !.request.at = "if_no_thread"]
         [] p.at = "start_bot_process" ->
              [start_bot_process(s, p.seen) EXCEPT !.request.at = "if_no_thread"]
         [] p.at = "if_no_thread" ->
              [s EXCEPT !.request.at = IF s.bot_thread THEN "respond" ELSE "thread_start"]
         [] p.at = "thread_start" ->
              [s EXCEPT !.bot_thread = TRUE, !.monitor.at = "check",
                        !.request.at = "respond"]
         [] p.at = "respond" ->
              [s EXCEPT !.request.at = "idle"]

\* one statement of the loop of monitor_bot_process()
monitor_bot_process_of(s) ==
    LET p == s.monitor
    IN CASE p.at = "check" ->
              IF s.bot_process # 0 /\ Exited(s)
              THEN [s EXCEPT !.monitor = [at |-> "start_bot_process",
                                          seen |-> s.bot_process]]
              ELSE [s EXCEPT !.monitor.at = "sleep"]
         [] p.at = "start_bot_process" ->
              [start_bot_process(s, p.seen) EXCEPT !.monitor.at = "sleep"]
         [] p.at = "sleep" ->
              [s EXCEPT !.monitor.at = "check"]

SupervisorStep(s) ==
    /\ pc' = s
    /\ UNCHANGED <<now, today, sheets_client, db_manager, data_manager, last_call,
                   last_ret, last_time, repeated, assigned>>

app ==
    /\ pc.request.at = "idle" => pc.request.calls < MaxRequests
    /\ pc.request.at = "start_bot_process" => pc.started < MaxStarts
    /\ SupervisorStep(app_of(pc))

monitor_bot_process ==
    /\ pc.monitor.at # "off"
    /\ pc.monitor.at = "start_bot_process" => pc.started < MaxStarts
    /\ SupervisorStep(monitor_bot_process_of(pc))

\* a child process exits
child_exit ==
    /\ \E child \in pc.running :
          SupervisorStep([pc EXCEPT !.running = @ \ {child}])

NextSupervisor ==
    \/ app
    \/ monitor_bot_process
    \/ child_exit
SpecSupervisor == InitSupervisor /\ [][NextSupervisor]_vars

(***************************************************************************)
(* C39.  At most one child process is running at any time, a child is      *)
(* started only when no child started earlier is still running, and no two *)
(* starts are made for the same observed exit (or absence) of a child.     *)
(***************************************************************************)
C39_AtMostOneChild ==
    /\ Cardinality(pc.running) <= 1
    /\ \A i, j \in 1..Len(pc.observed) :
           i # j => pc.observed[i] # pc.observed[j]

(***************************************************************************)
(* middlewares.py: AccessControlMiddleware.  Here pc holds the state of    *)
(* the module and what the bot has done: warned_users (user id -> the set  *)
(* of chats the user was warned in), sent (for each user and chat, the     *)
(* number of group-only warnings answered), handled (the number of events  *)
(* passed on to the handler) and events (the number of events received).   *)
(* An event is a Message (chat: event.chat.id) or a CallbackQuery (chat:   *)
(* event.message.chat.id).                                                 *)
(***************************************************************************)
MaxEvents == 4
\* config.py reads the list from the environment; two users stand for it
ALLOWED_USER_IDS == {1, 2}
UserIds == {1, 2, 3}
ChatIds == {-5, 0, 1, 3}
Events ==
    {[type |-> "Message", from_user |-> u, chat |-> Py(c), message |-> PyNone] :
        u \in UserIds, c \in ChatIds}
    \cup {[type |-> "CallbackQuery", from_user |-> u, chat |-> PyNone, message |-> Py(c)] :
        u \in UserIds, c \in ChatIds}

warned_users == pc.warned_users

InitAccess ==
    /\ now = 0 /\ today = 1
    /\ data_manager = DataManager_init(FALSE)
    /\ sheets_client = GoogleSheetsClient_init(<<>>)
    /\ db_manager = DatabaseManager_init
    /\ pc = [warned_users |-> EmptyDict,
             sent |-> [u \in UserIds, c \in ChatIds |-> 0],
             handled |-> 0, events |-> 0]
    /\ last_call = [op |-> "none"]
    /\ last_ret = PyNone
    /\ last_time = 0
    /\ repeated = FALSE
    /\ assigned = <<>>

EventChat(event) ==
    IF event.type = "CallbackQuery" THEN event.message.val ELSE event.chat.val

\* a variant that does not record the chat it warns in
AccessControlMiddleware_call_unrecorded(warned, event) ==
    LET user_id == event.from_user
        chat_id == EventChat(event)
    IN IF chat_id > 0
       THEN [warned_users |-> warned, answer |-> "group_only", handler |-> FALSE]
       ELSE IF user_id \notin ALLOWED_USER_IDS
       THEN [warned_users |-> warned, answer |-> "no_access", handler |-> FALSE]
       ELSE [warned_users |-> warned, answer |-> "none", handler |-> TRUE]

\* __call__(handler, event, data): the dictionary after the call, the answer
\* sent to the chat and whether the handler was awaited.  The list holds
\* integers only, so it never equals ["*"].
AccessControlMiddleware_call(warned, event) ==
    LET user_id == event.from_user
        chat_id == EventChat(event)
    IN IF chat_id > 0
       THEN IF chat_id \notin Get(warned, user_id, {})
            THEN [warned_users |-> DictSet(warned, user_id,
                                           Get(warned, user_id, {}) \cup {chat_id}),
                  answer |-> "group_only", handler |-> FALSE]
            ELSE [warned_users |-> warned, answer |-> "none", handler |-> FALSE]
       ELSE IF user_id \notin ALLOWED_USER_IDS
       THEN [warned_users |-> warned, answer |-> "no_access", handler |-> FALSE]
       ELSE [warned_users |-> warned, answer |-> "none", handler |-> TRUE]

\* the dispatcher runs the middleware on an event
AccessControlMiddleware ==
    /\ pc.events < MaxEvents
    /\ \E event \in Events :
          LET r == AccessControlMiddleware_call(warned_users, event)
              user_id == event.from_user
              chat_id == EventChat(event)
          IN /\ pc' = [warned_users |-> r.warned_users,
                       sent |-> IF r.answer = "group_only"
                                THEN [pc.sent EXCEPT ![user_id, chat_id] = @ + 1]
                                ELSE pc.sent,
                       handled |-> IF r.handler THEN pc.handled + 1 ELSE pc.handled,
                       events |-> pc.events + 1]
             /\ last_call' = [op |-> "AccessControlMiddleware", type |-> event.type,
                              user_id |-> user_id, chat_id |-> chat_id]
             /\ last_ret' = [answer |-> r.answer, handler |-> r.handler]
    /\ UNCHANGED <<now, today, sheets_client, db_manager, data_manager, last_time,
                   repeated, assigned>>

NextAccess == AccessControlMiddleware
SpecAccess == InitAccess /\ [][NextAccess]_vars

(***************************************************************************)
(* C40.  The middleware awaits the handler only for an event of a chat     *)
(* that is not private (chat id not positive) whose sender is in           *)
(* ALLOWED_USER_IDS, and a user is sent the group-only warning at most     *)
(* once for a private chat.                                                *)
(***************************************************************************)
C40_HandlerOnlyForAllowedInGroup ==
    /\ (last_call.op = "AccessControlMiddleware" /\ last_ret.handler) =>
           /\ ~(last_call.chat_id > 0)
           /\ last_call.user_id \in ALLOWED_USER_IDS
    /\ \A u \in UserIds, c \in ChatIds : c > 0 => pc.sent[u, c] <= 1

\* an event has been passed on, and a user already warned in a private chat
\* has just sent another event there
C40_Witness ==
    /\ last_call.op = "AccessControlMiddleware"
    /\ last_call.chat_id > 0
    /\ pc.sent[last_call.user_id, last_call.chat_id] = 1
    /\ last_ret.answer = "none"
    /\ pc.handled > 0
====
